---- MODULE Spec2Model ----
(***************************************************************************)
(* Verification model of libseadrop (SeaDrop): the three state machines of *)
(* state_machine.cpp, the trust store (DeviceStore), the pairing manager   *)
(* and the zone policy of device.cpp, and the distance monitor of          *)
(* distance.cpp.                                                           *)
(*                                                                         *)
(* SpecSM    one state-machine object (a TransferStateMachine, a           *)
(*           ConnectionStateMachine or a DiscoveryStateMachine) driven by  *)
(*           arbitrary calls of its public operations.                     *)
(* SpecStore one DeviceStore driven by arbitrary calls of its operations.  *)
(* SpecPairing  one PairingManager on a DeviceStore, while time passes.    *)
(* SpecPolicy   Device::can_auto_accept_files and can_auto_clipboard asked *)
(*              of a peer whose trust level and zone change.               *)
(* SpecDistance one DistanceMonitor fed the readings of one peer, while    *)
(*              time passes.                                               *)
(***************************************************************************)
EXTENDS Integers, Sequences, FiniteSets, TLC

\* ------------------------------------------------------------------------
\* Bounds of the model
\* ------------------------------------------------------------------------

\* callbacks are recorded until the record holds this many entries
MaxLog == 2
\* number of distinct device ids offered to the trust store
NumDevices == 2
\* number of distinct shared keys offered to the trust store
NumKeys == 2
\* number of distinct device names offered to the trust store
NumNames == 1
\* seconds the steady clock advances in one step while a pairing is watched
PairingTick == 30
\* the steady clock is not advanced past this many seconds in SpecPairing
MaxPairingNow == 90
\* largest total size of a transfer request offered to the policy
MaxRequestSize == 2
\* the total size up to which a request counts as a small file
SmallFileThreshold == 1
\* readings are fed to the distance monitor while the buffer holds at most
\* this many afterwards
MaxReadings == 3
\* steady_clock::now(), in seconds, when the distance monitor is constructed
DistClockStart == 3
\* the steady clock is not advanced past this many seconds in SpecDistance
MaxDistNow == 5
\* number of threads that call feed_rssi concurrently
NumFeedThreads == 2
\* number of packets the peer sends in one stream
MaxPackets == 2
\* longest payload, in bytes, of a packet in the stream
MaxPayload == 2
\* highest version byte a peer puts in a header
MaxVersion == 2
\* the number of results the completed history is measured against
HistoryCapacity == 2
\* seconds the system clock advances in one step of SpecTransfers
SysTick == 40
\* the system clock is not advanced past this many seconds
MaxSysNow == 80

VARIABLES
  kind,              \* class of the state-machine object
  relock,            \* what locking an already-held std::mutex does in this build
  initial,           \* state the machine had when constructed
  state_,            \* TransferStateMachine::state_ (and the two others)
  state_changed_cb_, \* TRUE iff a state_changed callback is registered
  terminal_cb_,      \* TRUE iff a terminal callback is registered
  mutex_,            \* "free", or "held" by a caller that never returns
  cb_log,            \* what the registered callbacks observed, in the order they ran
  sm_last,           \* the last call made on the machine and its outcome
  initialized,       \* DeviceStore::Impl::initialized
  devices,           \* DeviceStore::Impl::devices
  shared_keys,       \* DeviceStore::Impl::shared_keys
  store_last,        \* the last call made on the store and its outcome
  store,             \* TRUE iff PairingManager::Impl::store is not null
  current_pairing,   \* PairingManager::Impl::current_pairing
  ephemeral_keys,    \* TRUE iff PairingManager::Impl::ephemeral_keys holds a pair
  now,               \* std::chrono::steady_clock::now(), in seconds
  pair_last,         \* the last call made on the pairing manager and its outcome
  trust_level,       \* Device::trust_level of the peer that sends a request
  peer_zone,         \* the zone the peer is in when the policy is asked
  policy_last,       \* the last question put to the policy and its answer
  tracked,           \* TRUE iff DistanceMonitor::Impl::devices holds the peer's key
  readings,          \* DeviceData::readings of the peer (rssi_dbm of each reading)
  current_info,      \* DeviceData::current_info of the peer
  last_zone,         \* DeviceData::last_zone of the peer
  last_zone_change,  \* DeviceData::last_zone_change of the peer, in seconds
  thresholds,        \* DistanceMonitor::Impl::thresholds (the RSSI fields)
  smoothing_window,  \* DistanceMonitor::Impl::smoothing_window
  zone_hysteresis,   \* DistanceMonitor::Impl::zone_hysteresis, in milliseconds
  zone_changed_cb,   \* TRUE iff a zone_changed callback is registered
  security_alert_cb, \* TRUE iff a security_alert callback is registered
  dist_last,         \* the last call made on the distance monitor and its outcome
  feed_pc,           \* where each thread is inside feed_rssi
  feed_arg,          \* the rssi_dbm of the reading each thread is feeding
  dist_mutex,        \* the thread holding DistanceMonitor::Impl::mutex, 0 if free
  delivered,         \* the last event zone_changed_cb received, and the one before
  sent,              \* the packets the peer writes to the stream, each as its bytes
  fed_len,           \* how many bytes of the stream feed() has been given so far
  buffer_,           \* PacketParser::buffer_
  out,               \* the (header, payload) pairs next_packet() has returned
  split_seen,        \* where feed() calls have cut the stream so far
  parse_last,        \* the last call made on the parser and its outcome
  header_bytes,      \* the bytes handed to deserialize_header
  decode_last,       \* the last result of deserialize_header
  tm_initialized,    \* TransferManager::Impl::initialized
  active_transfers,  \* TransferManager::Impl::active_transfers (state under each key)
  pending_requests,  \* TransferManager::Impl::pending_requests (expiry under each key)
  completed_transfers, \* TransferManager::Impl::completed_transfers (state under each key)
  complete_cb,       \* TRUE iff TransferManager::Impl::complete_cb is set
  sys_now,           \* std::chrono::system_clock::now(), in seconds
  tm_last,           \* the last call made on the transfer manager and its outcome
  api,               \* the class whose operations the caller uses
  seadrop_state,     \* SeaDrop::Impl::state
  discovery_state,   \* DiscoveryManager::Impl::state
  connection_state,  \* ConnectionManager::Impl::state
  core_last          \* the last call made on these objects and its outcome

sm_vars == <<kind, relock, initial, state_, state_changed_cb_, terminal_cb_,
             mutex_, cb_log, sm_last>>
store_vars == <<initialized, devices, shared_keys, store_last>>
pair_vars == <<store, current_pairing, ephemeral_keys, now, pair_last>>
policy_vars == <<trust_level, peer_zone, policy_last>>
peer_data == <<tracked, readings, current_info, last_zone, last_zone_change>>
dist_config == <<thresholds, smoothing_window, zone_hysteresis,
                 zone_changed_cb, security_alert_cb>>
dist_vars == <<peer_data, dist_config, dist_last>>
feed_vars == <<feed_pc, feed_arg, dist_mutex, delivered>>
parser_vars == <<sent, fed_len, buffer_, out, split_seen, parse_last>>
header_vars == <<header_bytes, decode_last>>
transfer_vars == <<tm_initialized, active_transfers, pending_requests, completed_transfers, complete_cb, sys_now, tm_last>>
core_vars == <<api, seadrop_state, discovery_state, connection_state, core_last>>
vars == <<sm_vars, store_vars, pair_vars, policy_vars, dist_vars, feed_vars,
          parser_vars,
          header_vars,
          transfer_vars,
          core_vars>>
\* what a call on one component leaves alone
not_core_vars == <<sm_vars, store_vars, pair_vars, policy_vars, dist_vars,
                   feed_vars, parser_vars, header_vars, transfer_vars>>
not_transfer_vars == <<sm_vars, store_vars, pair_vars, policy_vars, dist_vars,
                       feed_vars, parser_vars, header_vars,
    core_vars>>
not_parser_vars == <<sm_vars, store_vars, pair_vars, policy_vars, dist_vars,
                     feed_vars, header_vars,
    transfer_vars,
    core_vars>>
not_header_vars == <<sm_vars, store_vars, pair_vars, policy_vars, dist_vars,
                     feed_vars, parser_vars,
    transfer_vars,
    core_vars>>
not_sm_vars == <<store_vars, pair_vars, policy_vars, dist_vars, feed_vars,
    parser_vars,
    header_vars,
    transfer_vars,
    core_vars>>
not_store_vars == <<sm_vars, pair_vars, policy_vars, dist_vars, feed_vars,
    parser_vars,
    header_vars,
    transfer_vars,
    core_vars>>
not_pairing_vars == <<sm_vars, policy_vars, dist_vars, feed_vars,
    parser_vars,
    header_vars,
    transfer_vars,
    core_vars>>
not_policy_vars == <<sm_vars, store_vars, pair_vars, dist_vars, feed_vars,
    parser_vars,
    header_vars,
    transfer_vars,
    core_vars>>
not_monitor_vars == <<sm_vars, store_vars, policy_vars,
                      store, current_pairing, ephemeral_keys, pair_last,
    parser_vars,
    header_vars,
    transfer_vars,
    core_vars>>
not_distance_vars == <<not_monitor_vars, feed_vars>>

\* ------------------------------------------------------------------------
\* State machines (state_machine.cpp)
\* ------------------------------------------------------------------------

MachineKinds == {"Transfer", "Connection", "Discovery"}

TransferState == {"Pending", "AwaitingAccept", "Preparing", "Connecting",
                  "InProgress", "Paused", "Completed", "Cancelled",
                  "Failed", "Rejected"}

ConnectionState == {"Disconnected", "Connecting", "Establishing",
                    "Handshaking", "Connected", "Disconnecting", "Lost",
                    "Error"}

DiscoveryState == {"Uninitialized", "Idle", "Advertising", "Scanning",
                   "Active", "Error"}

StatesOf(k) ==
  CASE k = "Transfer" -> TransferState
    [] k = "Connection" -> ConnectionState
    [] k = "Discovery" -> DiscoveryState

\* TransferStateMachine::valid_transitions_ ("Connecting" has no entry)
TransferTable ==
  [s \in TransferState \ {"Connecting"} |->
     CASE s = "Pending" -> {"AwaitingAccept", "Cancelled", "Failed"}
       [] s = "AwaitingAccept" -> {"Preparing", "Rejected", "Cancelled", "Failed"}
       [] s = "Preparing" -> {"InProgress", "Failed", "Cancelled"}
       [] s = "InProgress" -> {"Paused", "Completed", "Cancelled", "Failed"}
       [] s = "Paused" -> {"InProgress", "Cancelled", "Failed"}
       [] OTHER -> {}]

\* ConnectionStateMachine::valid_transitions_
ConnectionTable ==
  [s \in ConnectionState |->
     CASE s = "Disconnected" -> {"Connecting"}
       [] s = "Connecting" -> {"Establishing", "Disconnected", "Error"}
       [] s = "Establishing" -> {"Handshaking", "Disconnected", "Error"}
       [] s = "Handshaking" -> {"Connected", "Disconnected", "Error"}
       [] s = "Connected" -> {"Disconnecting", "Lost"}
       [] s = "Disconnecting" -> {"Disconnected"}
       [] s = "Lost" -> {"Connecting", "Disconnected"}
       [] s = "Error" -> {"Disconnected"}]

\* DiscoveryStateMachine::valid_transitions_
DiscoveryTable ==
  [s \in DiscoveryState |->
     CASE s = "Uninitialized" -> {"Idle"}
       [] s = "Idle" -> {"Advertising", "Scanning", "Active", "Error"}
       [] s = "Advertising" -> {"Active", "Idle", "Scanning"}
       [] s = "Scanning" -> {"Active", "Idle", "Advertising"}
       [] s = "Active" -> {"Advertising", "Scanning", "Idle"}
       [] s = "Error" -> {"Idle", "Uninitialized"}]

TableOf(k) ==
  CASE k = "Transfer" -> TransferTable
    [] k = "Connection" -> ConnectionTable
    [] k = "Discovery" -> DiscoveryTable

\* A table with the edge Completed -> Pending added.
Allowed_reopen(k, s) ==
  IF k = "Transfer" /\ s = "Completed" THEN {"Pending"}
  ELSE IF s \in DOMAIN TableOf(k) THEN TableOf(k)[s] ELSE {}

\* valid_transitions_.find(state_): the allowed-next set, empty when the
\* state has no entry in the table
Allowed(k, s) == IF s \in DOMAIN TableOf(k) THEN TableOf(k)[s] ELSE {}

\* the state a default-constructed machine starts in, and reset() returns to
DefaultInitial(k) ==
  CASE k = "Transfer" -> "Pending"
    [] k = "Connection" -> "Disconnected"
    [] k = "Discovery" -> "Idle"

\* states a machine of class k is constructed in: TransferStateMachine()
\* and TransferStateMachine(initial), the latter with the states of
\* TransferInitials
TransferInitials == {"Pending", "InProgress", "Completed"}

ConstructibleStates(k) ==
  IF k = "Transfer" THEN TransferInitials ELSE {DefaultInitial(k)}

\* TransferStateMachine::is_terminal, on a given state
IsTerminalState(s) == s \in {"Completed", "Cancelled", "Rejected", "Failed"}

\* TransferStateMachine::is_active / DiscoveryStateMachine::is_active
IsActiveState(k, s) ==
  CASE k = "Transfer" -> s \in {"InProgress", "Paused"}
    [] k = "Discovery" -> s \in {"Advertising", "Scanning", "Active"}
    [] OTHER -> FALSE

\* Locking a std::mutex the calling thread already owns is undefined
\* behaviour.  A build either lets the second lock through (lock is a no-op
\* when the program is not linked against the threads library) or blocks
\* the caller forever while it still owns the mutex.
RelockOutcomes == {"proceeds", "blocks"}

\* error code of a rejected transition
RejectCode_arg == "InvalidArgument"

RejectCode == "InvalidState"

CbEntry(c, from, to) == [cb |-> c, from |-> from, to |-> to]

\* the callback invoked with its arguments swapped
StateChangedCalls_swapped(from, to) ==
  IF state_changed_cb_ THEN <<CbEntry("state_changed", to, from)>> ELSE <<>>

\* if (state_changed_cb_) state_changed_cb_(from, to);
StateChangedCalls(from, to) ==
  IF state_changed_cb_ THEN <<CbEntry("state_changed", from, to)>> ELSE <<>>

\* if (is_terminal() && terminal_cb_) terminal_cb_(to);
TerminalCalls(to) ==
  IF IsTerminalState(to) /\ terminal_cb_
  THEN <<CbEntry("terminal", to, to)>> ELSE <<>>

\* record of one call: operation, argument, state before, result code and,
\* for valid_transitions(), the returned set
SmCall(op, to, from, res) ==
  [op |-> op, to |-> to, from |-> from, res |-> res, out |-> {}]

\* room left in the callback record (bounds the model only)
LogRoom == Len(cb_log) < MaxLog

\* a call that finds the mutex held by a caller that never returns
BlockedCall(op, to) ==
  /\ mutex_ = "held"
  /\ sm_last' = SmCall(op, to, state_, "blocked")
  /\ UNCHANGED <<kind, relock, initial, state_, state_changed_cb_,
                 terminal_cb_, mutex_, cb_log>>

\* the tail of TransferStateMachine::transition / force_transition after
\* state_ = to: state_changed callback, then is_terminal() locks mutex_ again
TransferNotify(op, to) ==
  /\ state_' = to
  /\ IF relock = "blocks"
     THEN /\ cb_log' = cb_log \o StateChangedCalls(state_, to)
          /\ mutex_' = "held"
          /\ sm_last' = SmCall(op, to, state_, "blocked")
     ELSE /\ cb_log' = cb_log \o StateChangedCalls(state_, to) \o TerminalCalls(to)
          /\ mutex_' = mutex_
          /\ sm_last' = SmCall(op, to, state_, IF op = "transition" THEN "Ok" ELSE "void")
  /\ UNCHANGED <<kind, relock, initial, state_changed_cb_, terminal_cb_>>

\* transition(to) that notifies the callback before validating
Transition_notifyFirst(to) ==
  /\ to \in StatesOf(kind)
  /\ \/ BlockedCall("transition", to)
     \/ /\ mutex_ = "free"
        /\ to \notin Allowed(kind, state_)
        /\ LogRoom
        /\ sm_last' = SmCall("transition", to, state_, RejectCode)
        /\ cb_log' = cb_log \o StateChangedCalls(state_, to)
        /\ UNCHANGED <<kind, relock, initial, state_, state_changed_cb_,
                       terminal_cb_, mutex_>>
     \/ /\ mutex_ = "free"
        /\ to \in Allowed(kind, state_)
        /\ LogRoom
        /\ IF kind = "Transfer"
           THEN TransferNotify("transition", to)
           ELSE /\ state_' = to
                /\ cb_log' = cb_log \o StateChangedCalls(state_, to)
                /\ sm_last' = SmCall("transition", to, state_, "Ok")
                /\ UNCHANGED <<kind, relock, initial, state_changed_cb_,
                               terminal_cb_, mutex_>>

\* TransferStateMachine::transition, ConnectionStateMachine::transition,
\* DiscoveryStateMachine::transition
Transition(to) ==
  /\ to \in StatesOf(kind)
  /\ \/ BlockedCall("transition", to)
     \/ /\ mutex_ = "free"
        /\ to \notin Allowed(kind, state_)
        /\ sm_last' = SmCall("transition", to, state_, RejectCode)
        /\ UNCHANGED <<kind, relock, initial, state_, state_changed_cb_,
                       terminal_cb_, mutex_, cb_log>>
     \/ /\ mutex_ = "free"
        /\ to \in Allowed(kind, state_)
        /\ LogRoom
        /\ IF kind = "Transfer"
           THEN TransferNotify("transition", to)
           ELSE /\ state_' = to
                /\ cb_log' = cb_log \o StateChangedCalls(state_, to)
                /\ sm_last' = SmCall("transition", to, state_, "Ok")
                /\ UNCHANGED <<kind, relock, initial, state_changed_cb_,
                               terminal_cb_, mutex_>>

\* TransferStateMachine::force_transition
ForceTransition(to) ==
  /\ kind = "Transfer"
  /\ to \in TransferState
  /\ \/ BlockedCall("force_transition", to)
     \/ /\ mutex_ = "free"
        /\ LogRoom
        /\ TransferNotify("force_transition", to)

\* reset() of the three machines
Reset ==
  \/ BlockedCall("reset", DefaultInitial(kind))
  \/ /\ mutex_ = "free"
     /\ LogRoom
     /\ state_' = DefaultInitial(kind)
     /\ cb_log' = IF state_ # DefaultInitial(kind)
                  THEN cb_log \o StateChangedCalls(state_, DefaultInitial(kind))
                  ELSE cb_log
     /\ sm_last' = SmCall("reset", DefaultInitial(kind), state_, "void")
     /\ UNCHANGED <<kind, relock, initial, state_changed_cb_,
                    terminal_cb_, mutex_>>

\* on_state_changed(callback): callback is a function object or empty; the
\* function object it replaces is destroyed, and what it recorded with it
OnStateChanged(set) ==
  \/ BlockedCall("on_state_changed", state_)
  \/ /\ mutex_ = "free"
     /\ state_changed_cb_' = set
     /\ cb_log' = << >>
     /\ sm_last' = SmCall("on_state_changed", state_, state_, "void")
     /\ UNCHANGED <<kind, relock, initial, state_, terminal_cb_, mutex_>>

\* TransferStateMachine::on_terminal(callback)
OnTerminal(set) ==
  /\ kind = "Transfer"
  /\ \/ BlockedCall("on_terminal", state_)
     \/ /\ mutex_ = "free"
        /\ terminal_cb_' = set
        /\ cb_log' = << >>
        /\ sm_last' = SmCall("on_terminal", state_, state_, "void")
        /\ UNCHANGED <<kind, relock, initial, state_, state_changed_cb_, mutex_>>

\* valid_transitions() of the Transfer and Connection machines, as a call
ValidTransitionsCall ==
  /\ kind \in {"Transfer", "Connection"}
  /\ \/ BlockedCall("valid_transitions", state_)
     \/ /\ mutex_ = "free"
        /\ sm_last' = [SmCall("valid_transitions", state_, state_, "Ok")
                         EXCEPT !.out = Allowed(kind, state_)]
        /\ UNCHANGED <<kind, relock, initial, state_, state_changed_cb_,
                       terminal_cb_, mutex_, cb_log>>

\* ------------------------------------------------------------------------
\* Trust store (DeviceStore, device.cpp)
\* ------------------------------------------------------------------------

DeviceIds == 1..NumDevices
Keys == 1..NumKeys

TrustLevel == {"Unknown", "Discovered", "PairingPending", "Trusted", "Blocked"}

\* struct Device as the store sees it: the trust level, and the name standing
\* for the descriptive fields that no store operation reads (paired_at, which
\* trust_device stamps and nothing reads, is left out)
DeviceRecords == [name : 1..NumNames, trust_level : TrustLevel]

\* the records of peers that discovery has just seen
DiscoveredRecords == {d \in DeviceRecords : d.trust_level = "Discovered"}

\* DeviceStore::get_device(id).trust_level, "none" when there is no record
StoredTrust(id) ==
  IF id \in DOMAIN devices THEN devices[id].trust_level ELSE "none"

\* the key stored for id, 0 when there is none
StoredKey(id) == IF id \in DOMAIN shared_keys THEN shared_keys[id] ELSE 0

\* record of one call on the store: operation, id, key argument, result
\* code, and the trust level and key stored for id when the call was made
StoreCall(op, id, res) ==
  [op |-> op, id |-> id, key |-> 0, res |-> res,
   was |-> StoredTrust(id), had |-> StoredKey(id)]

\* DeviceStore::init
StoreInit ==
  /\ IF initialized
     THEN /\ store_last' = StoreCall("init", 0, "AlreadyInitialized")
          /\ UNCHANGED initialized
     ELSE /\ initialized' = TRUE
          /\ store_last' = StoreCall("init", 0, "Ok")
  /\ UNCHANGED <<devices, shared_keys>>

\* DeviceStore::close
StoreClose ==
  /\ devices' = << >>
  /\ shared_keys' = << >>
  /\ initialized' = FALSE
  /\ store_last' = StoreCall("close", 0, "void")

\* DeviceStore::is_trusted
is_trusted(id) == id \in DOMAIN devices /\ devices[id].trust_level = "Trusted"

\* DeviceStore::is_blocked
is_blocked(id) == id \in DOMAIN devices /\ devices[id].trust_level = "Blocked"

\* DeviceStore::get_shared_key: the key, or the error code
get_shared_key(id) ==
  IF id \in DOMAIN shared_keys
  THEN [ok |-> TRUE, key |-> shared_keys[id], code |-> "Ok"]
  ELSE [ok |-> FALSE, key |-> 0, code |-> "DeviceNotTrusted"]

\* map[key] = value
MapPut(m, k, v) == [x \in (DOMAIN m) \cup {k} |-> IF x = k THEN v ELSE m[x]]

\* map.erase(key)
MapErase(m, k) == [x \in (DOMAIN m) \ {k} |-> m[x]]

\* DeviceStore::save_device
SaveDevice(id, device) ==
  /\ devices' = MapPut(devices, id, device)
  /\ store_last' = StoreCall("save_device", id, "Ok")
  /\ UNCHANGED <<initialized, shared_keys>>

\* the common early return of the operations that need the record
RecordNotFound(op, id) ==
  /\ id \notin DOMAIN devices
  /\ store_last' = StoreCall(op, id, "RecordNotFound")
  /\ UNCHANGED <<initialized, devices, shared_keys>>

\* trust_device that marks the record Trusted but drops the key
TrustDevice_noKey(id, shared_key) ==
  \/ RecordNotFound("trust_device", id)
  \/ /\ id \in DOMAIN devices
     /\ devices' = [devices EXCEPT ![id].trust_level = "Trusted"]
     /\ store_last' = [StoreCall("trust_device", id, "Ok") EXCEPT !.key = shared_key]
     /\ UNCHANGED <<initialized, shared_keys>>

\* DeviceStore::trust_device
TrustDevice(id, shared_key) ==
  \/ RecordNotFound("trust_device", id)
  \/ /\ id \in DOMAIN devices
     /\ devices' = [devices EXCEPT ![id].trust_level = "Trusted"]
     /\ shared_keys' = MapPut(shared_keys, id, shared_key)
     /\ store_last' = [StoreCall("trust_device", id, "Ok") EXCEPT !.key = shared_key]
     /\ UNCHANGED initialized

\* block_device that keeps the shared key
BlockDevice_keepKey(id) ==
  \/ RecordNotFound("block_device", id)
  \/ /\ id \in DOMAIN devices
     /\ devices' = [devices EXCEPT ![id].trust_level = "Blocked"]
     /\ store_last' = StoreCall("block_device", id, "Ok")
     /\ UNCHANGED <<initialized, shared_keys>>

\* DeviceStore::block_device
BlockDevice(id) ==
  \/ RecordNotFound("block_device", id)
  \/ /\ id \in DOMAIN devices
     /\ devices' = [devices EXCEPT ![id].trust_level = "Blocked"]
     /\ shared_keys' = MapErase(shared_keys, id)
     /\ store_last' = StoreCall("block_device", id, "Ok")
     /\ UNCHANGED initialized

\* DeviceStore::untrust_device
UntrustDevice(id) ==
  \/ RecordNotFound("untrust_device", id)
  \/ /\ id \in DOMAIN devices
     /\ devices' = [devices EXCEPT ![id].trust_level = "Discovered"]
     /\ shared_keys' = MapErase(shared_keys, id)
     /\ store_last' = StoreCall("untrust_device", id, "Ok")
     /\ UNCHANGED initialized

\* DeviceStore::unblock_device
UnblockDevice(id) ==
  \/ RecordNotFound("unblock_device", id)
  \/ /\ id \in DOMAIN devices
     /\ devices' = [devices EXCEPT ![id].trust_level = "Discovered"]
     /\ store_last' = StoreCall("unblock_device", id, "Ok")
     /\ UNCHANGED <<initialized, shared_keys>>

\* DeviceStore::delete_device
DeleteDevice(id) ==
  /\ devices' = MapErase(devices, id)
  /\ shared_keys' = MapErase(shared_keys, id)
  /\ store_last' = StoreCall("delete_device", id, "Ok")
  /\ UNCHANGED initialized

\* ------------------------------------------------------------------------
\* Pairing manager (device.cpp)
\* ------------------------------------------------------------------------

\* std::chrono::seconds(60) added to now() by initiate_pairing
PairingTimeout == 60

\* an empty std::optional<PairingRequest>; a request is the id of its device
\* and its expires_at
NoPairing == [id |-> 0, expires_at |-> 0]

\* current_pairing.has_value()
HasPairing == current_pairing.id # 0

\* PairingRequest::is_expired, asked of the pairing in progress
is_expired == HasPairing /\ now > current_pairing.expires_at

\* record of one call on the pairing manager
PairCall(op, id, res) == [op |-> op, id |-> id, res |-> res]

\* dereferencing the null store pointer ended the process
Crashed == pair_last.res = "crash"

\* PairingManager::init(store) with a non-null store
PairingInit ==
  /\ store' = TRUE
  /\ pair_last' = PairCall("init", 0, "Ok")
  /\ UNCHANGED <<current_pairing, ephemeral_keys, now, store_vars>>

\* PairingManager::initiate_pairing; keygen_ok is the outcome of
\* KeyPair::generate
InitiatePairing(id, keygen_ok) ==
  /\ IF HasPairing
     THEN /\ pair_last' = PairCall("initiate_pairing", id, "InvalidState")
          /\ UNCHANGED <<current_pairing, ephemeral_keys>>
     ELSE IF ~keygen_ok
     THEN /\ pair_last' = PairCall("initiate_pairing", id, "SecurityError")
          /\ UNCHANGED <<current_pairing, ephemeral_keys>>
     ELSE /\ ephemeral_keys' = TRUE
          /\ current_pairing' = [id |-> id, expires_at |-> now + PairingTimeout]
          /\ pair_last' = PairCall("initiate_pairing", id, "Ok")
  /\ UNCHANGED <<store, now, store_vars>>

\* PairingManager::accept_pairing(request), request.device.id = id;
\* shared_key is what random_bytes(32) returned
AcceptPairing(id, shared_key) ==
  \/ /\ ~HasPairing
     /\ pair_last' = PairCall("accept_pairing", id, "InvalidState")
     /\ UNCHANGED <<store, current_pairing, ephemeral_keys, now, store_vars>>
  \/ /\ HasPairing
     /\ ~store
     /\ pair_last' = PairCall("accept_pairing", id, "crash")
     /\ UNCHANGED <<store, current_pairing, ephemeral_keys, now, store_vars>>
  \/ /\ HasPairing
     /\ store
     /\ TrustDevice(id, shared_key)
     /\ IF id \in DOMAIN devices
        THEN /\ current_pairing' = NoPairing
             /\ ephemeral_keys' = FALSE
             /\ pair_last' = PairCall("accept_pairing", id, "Ok")
        ELSE /\ pair_last' = PairCall("accept_pairing", id, "RecordNotFound")
             /\ UNCHANGED <<current_pairing, ephemeral_keys>>
     /\ UNCHANGED <<store, now>>

\* PairingManager::reject_pairing(request), request.device.id = id
RejectPairing(id) ==
  /\ current_pairing' = NoPairing
  /\ ephemeral_keys' = FALSE
  /\ pair_last' = PairCall("reject_pairing", id, "void")
  /\ UNCHANGED <<store, now, store_vars>>

\* PairingManager::cancel_pairing
CancelPairing ==
  /\ current_pairing' = NoPairing
  /\ ephemeral_keys' = FALSE
  /\ pair_last' = PairCall("cancel_pairing", current_pairing.id, "void")
  /\ UNCHANGED <<store, now, store_vars>>

\* the steady clock advances
PairingClock ==
  /\ now + PairingTick <= MaxPairingNow
  /\ now' = now + PairingTick
  /\ UNCHANGED <<store, current_pairing, ephemeral_keys, pair_last, store_vars>>

\* ------------------------------------------------------------------------
\* Zone and trust policy of a device (device.cpp)
\* ------------------------------------------------------------------------

TrustZone == {"Intimate", "Close", "Nearby", "Far", "Unknown"}

\* TransferRequest::total_size
RequestSizes == 0..MaxRequestSize

\* can_auto_accept_files that looks at the zone only
can_auto_accept_files_anyTrust(trust, zone) ==
  CASE zone \in {"Intimate", "Close"} -> TRUE
    [] zone = "Nearby" -> FALSE
    [] zone \in {"Far", "Unknown"} -> FALSE
    [] OTHER -> FALSE

\* Device::can_auto_accept_files
can_auto_accept_files(trust, zone) ==
  IF trust # "Trusted"
  THEN FALSE
  ELSE CASE zone \in {"Intimate", "Close"} -> TRUE
         [] zone = "Nearby" -> FALSE
         [] zone \in {"Far", "Unknown"} -> FALSE
         [] OTHER -> FALSE

\* can_auto_clipboard that also allows the Close zone
can_auto_clipboard_close(trust, zone) ==
  IF trust # "Trusted"
  THEN FALSE
  ELSE zone \in {"Intimate", "Close"}

\* Device::can_auto_clipboard
can_auto_clipboard(trust, zone) ==
  IF trust # "Trusted"
  THEN FALSE
  ELSE zone = "Intimate"

\* record of one question put to the policy: the peer's trust level and zone,
\* the total size of the request at hand, and the answer
PolicyCall(op, size, res) ==
  [op |-> op, trust |-> trust_level, zone |-> peer_zone, size |-> size,
   res |-> res]

\* a transfer request of the given total size arrives and
\* device.can_auto_accept_files(zone) is asked
AutoAcceptCheck(size) ==
  /\ policy_last' = PolicyCall("can_auto_accept_files", size,
                               can_auto_accept_files(trust_level, peer_zone))
  /\ UNCHANGED <<trust_level, peer_zone>>

\* device.can_auto_clipboard(zone) is asked
AutoClipboardCheck ==
  /\ policy_last' = PolicyCall("can_auto_clipboard", 0,
                               can_auto_clipboard(trust_level, peer_zone))
  /\ UNCHANGED <<trust_level, peer_zone>>

\* the peer moves to another zone
ZoneMoves(zone) ==
  /\ zone # peer_zone
  /\ peer_zone' = zone
  /\ UNCHANGED <<trust_level, policy_last>>

\* the peer's record gets another trust level
TrustChanges(trust) ==
  /\ trust # trust_level
  /\ trust_level' = trust
  /\ UNCHANGED <<peer_zone, policy_last>>

\* ------------------------------------------------------------------------
\* Distance monitor (distance.cpp), for one peer
\* ------------------------------------------------------------------------

\* the RSSI thresholds ZoneThresholds::reset_defaults computes for 3 m, 10 m
\* and 30 m: static_cast<int>(-59 - 20 * log10(d)) of -68.54, -79.0, -88.54
DefaultThresholds ==
  [intimate_rssi |-> -68, close_rssi |-> -79, nearby_rssi |-> -88]

\* the thresholds offered to set_zone_thresholds: a default-initialised
\* ZoneThresholds, and one whose distances fail is_valid
ThresholdInputs ==
  { [intimate_rssi |-> -55, close_rssi |-> -70, nearby_rssi |-> -85,
     is_valid |-> TRUE],
    [intimate_rssi |-> -55, close_rssi |-> -70, nearby_rssi |-> -85,
     is_valid |-> FALSE] }

\* the rssi_dbm of the readings fed
RssiValues == {-50, -90}

\* the sample counts offered to set_smoothing_window
WindowInputs == {0, 2}

\* the durations, in milliseconds, offered to set_zone_change_hysteresis
HysteresisInputs == {0, 5000}

\* a default-constructed DistanceInfo
NoInfo ==
  [rssi_dbm |-> -100, rssi_smoothed |-> -100, zone |-> "Unknown",
   last_update |-> 0]

\* int / int of C++: the quotient truncated toward zero
IntDiv(a, b) == IF a >= 0 THEN a \div b ELSE -((-a) \div b)

RECURSIVE SumOf(_)
SumOf(buf) == IF buf = << >> THEN 0 ELSE Head(buf) + SumOf(Tail(buf))

\* DistanceMonitor::Impl::calculate_smoothed_rssi
calculate_smoothed_rssi(buf) ==
  IF buf = << >> THEN -100 ELSE IntDiv(SumOf(buf), Len(buf))

\* rssi_to_zone
rssi_to_zone(rssi_dbm, th) ==
  IF rssi_dbm >= th.intimate_rssi THEN "Intimate"
  ELSE IF rssi_dbm >= th.close_rssi THEN "Close"
  ELSE IF rssi_dbm >= th.nearby_rssi THEN "Nearby"
  ELSE "Far"

\* process_reading, the history: push_back, then pop_front while the buffer
\* is longer than the smoothing window
PushReading(buf, rssi) ==
  LET pushed == Append(buf, rssi)
  IN IF Len(pushed) > smoothing_window
     THEN SubSeq(pushed, Len(pushed) - smoothing_window + 1, Len(pushed))
     ELSE pushed

\* the zone taken from the newest reading alone
NewZone_unsmoothed(buf) == rssi_to_zone(buf[Len(buf)], thresholds)

\* process_reading, the zone of a buffer
NewZone(buf) == rssi_to_zone(calculate_smoothed_rssi(buf), thresholds)

\* a security alert for every move to Far
requires_security_alert_anyFar(previous, zone) == zone = "Far"

\* process_reading, ZoneChangeEvent::requires_security_alert
requires_security_alert(previous, zone) ==
  previous # "Unknown" /\ zone = "Far" /\ previous # "Far"

\* DistanceMonitor::get_zone
get_zone == IF tracked THEN current_info.zone ELSE "Unknown"

\* record of one call on the distance monitor; for feed_rssi: the zone it
\* computed, last_zone when it was called, whether the hysteresis had
\* elapsed since the peer's last event (or there was none), the event it
\* created and the callbacks it invoked
DistCall(op, res) ==
  [op |-> op, res |-> res, rssi |-> 0, zone |-> "Unknown", was |-> "Unknown",
   waited |-> FALSE, emitted |-> FALSE, previous |-> "Unknown",
   current |-> "Unknown", alert |-> FALSE, zc_called |-> FALSE,
   alert_called |-> FALSE]

\* DistanceMonitor::feed_rssi and Impl::process_reading, for a reading
\* whose timestamp is the steady clock's now(), as the callers stamp it
FeedRssi(rssi) ==
  LET kept == PushReading(readings, rssi)
      smoothed == calculate_smoothed_rssi(kept)
      zone == NewZone(kept)
      emit == /\ zone # last_zone
              /\ (now - last_zone_change) * 1000 >= zone_hysteresis
      alert == requires_security_alert(last_zone, zone)
  IN /\ Len(kept) <= MaxReadings
     /\ tracked' = TRUE
     /\ readings' = kept
     /\ current_info' = [rssi_dbm |-> rssi, rssi_smoothed |-> smoothed,
                         zone |-> zone, last_update |-> now]
     /\ last_zone' = IF emit THEN zone ELSE last_zone
     /\ last_zone_change' = IF emit THEN now ELSE last_zone_change
     /\ dist_last' =
          [DistCall("feed_rssi", "void") EXCEPT
             !.rssi = rssi,
             !.zone = zone,
             !.was = last_zone,
             !.waited = \/ last_zone = "Unknown"
                        \/ (now - last_zone_change) * 1000 >= zone_hysteresis,
             !.emitted = emit,
             !.previous = IF emit THEN last_zone ELSE "Unknown",
             !.current = IF emit THEN zone ELSE "Unknown",
             !.alert = emit /\ alert,
             !.zc_called = emit /\ zone_changed_cb,
             !.alert_called = emit /\ alert /\ security_alert_cb]
     /\ UNCHANGED <<dist_config, now>>

\* DistanceMonitor::remove_device
RemoveDevice ==
  /\ tracked' = FALSE
  /\ readings' = << >>
  /\ current_info' = NoInfo
  /\ last_zone' = "Unknown"
  /\ last_zone_change' = 0
  /\ dist_last' = DistCall("remove_device", "void")
  /\ UNCHANGED <<dist_config, now>>

\* DistanceMonitor::set_zone_thresholds
SetZoneThresholds(t) ==
  /\ IF ~t.is_valid
     THEN /\ dist_last' = DistCall("set_zone_thresholds", "InvalidArgument")
          /\ UNCHANGED thresholds
     ELSE /\ thresholds' = [intimate_rssi |-> t.intimate_rssi,
                            close_rssi |-> t.close_rssi,
                            nearby_rssi |-> t.nearby_rssi]
          /\ dist_last' = DistCall("set_zone_thresholds", "Ok")
  /\ UNCHANGED <<peer_data, smoothing_window, zone_hysteresis,
                 zone_changed_cb, security_alert_cb, now>>

\* DistanceMonitor::set_smoothing_window
SetSmoothingWindow(samples) ==
  /\ smoothing_window' =
       (IF (IF samples < 20 THEN samples ELSE 20) > 1
        THEN (IF samples < 20 THEN samples ELSE 20)
        ELSE 1)
  /\ dist_last' = DistCall("set_smoothing_window", "void")
  /\ UNCHANGED <<peer_data, thresholds, zone_hysteresis, zone_changed_cb,
                 security_alert_cb, now>>

\* DistanceMonitor::set_zone_change_hysteresis
SetZoneChangeHysteresis(duration) ==
  /\ zone_hysteresis' = duration
  /\ dist_last' = DistCall("set_zone_change_hysteresis", "void")
  /\ UNCHANGED <<peer_data, thresholds, smoothing_window, zone_changed_cb,
                 security_alert_cb, now>>

\* DistanceMonitor::on_zone_changed with a callable
OnZoneChanged ==
  /\ zone_changed_cb' = TRUE
  /\ dist_last' = DistCall("on_zone_changed", "void")
  /\ UNCHANGED <<peer_data, thresholds, smoothing_window, zone_hysteresis,
                 security_alert_cb, now>>

\* DistanceMonitor::on_security_alert with a callable
OnSecurityAlert ==
  /\ security_alert_cb' = TRUE
  /\ dist_last' = DistCall("on_security_alert", "void")
  /\ UNCHANGED <<peer_data, thresholds, smoothing_window, zone_hysteresis,
                 zone_changed_cb, now>>

\* the steady clock advances by one second
DistanceClock ==
  /\ now < MaxDistNow
  /\ now' = now + 1
  /\ UNCHANGED dist_vars

\* ------------------------------------------------------------------------
\* feed_rssi called from several threads (distance.cpp)
\* ------------------------------------------------------------------------

FeedThreads == 1..NumFeedThreads

\* no event delivered yet
NoneDelivered == [previous |-> "none", current |-> "none", before |-> "none"]

\* a lock_guard that takes the mutex whoever holds it
MutexFree_unlocked == TRUE

\* std::lock_guard<std::mutex> lock(impl_->mutex) can be taken
MutexFree == dist_mutex = 0

\* a thread calls feed_rssi and waits for the mutex
FeedCall(t, rssi) ==
  /\ feed_pc[t] = "idle"
  /\ feed_pc' = [feed_pc EXCEPT ![t] = "waiting"]
  /\ feed_arg' = [feed_arg EXCEPT ![t] = rssi]
  /\ UNCHANGED <<dist_mutex, delivered, dist_vars, now>>

\* the thread takes the mutex and runs process_reading up to its first
\* callback, which it enters if there is one to call
FeedLocked(t) ==
  /\ feed_pc[t] = "waiting"
  /\ MutexFree
  /\ dist_mutex' = t
  /\ FeedRssi(feed_arg[t])
  /\ feed_pc' = [feed_pc EXCEPT ![t] =
                   IF dist_last'.zc_called THEN "in_zone_cb"
                   ELSE IF dist_last'.alert_called THEN "in_alert_cb"
                   ELSE "returning"]
  /\ delivered' = IF dist_last'.zc_called
                  THEN [previous |-> dist_last'.previous,
                        current |-> dist_last'.current,
                        before |-> delivered.current]
                  ELSE delivered
  /\ UNCHANGED feed_arg

\* zone_changed_cb returns: security_alert_cb is entered if it is to be
\* called, else process_reading is over
ZoneCbReturns(t) ==
  /\ feed_pc[t] = "in_zone_cb"
  /\ feed_pc' = [feed_pc EXCEPT ![t] =
                   IF dist_last.alert_called THEN "in_alert_cb" ELSE "returning"]
  /\ UNCHANGED <<feed_arg, dist_mutex, delivered, dist_vars, now>>

\* security_alert_cb returns
AlertCbReturns(t) ==
  /\ feed_pc[t] = "in_alert_cb"
  /\ feed_pc' = [feed_pc EXCEPT ![t] = "returning"]
  /\ UNCHANGED <<feed_arg, dist_mutex, delivered, dist_vars, now>>

\* feed_rssi returns: the lock_guard releases the mutex
FeedReturns(t) ==
  /\ feed_pc[t] = "returning"
  /\ feed_pc' = [feed_pc EXCEPT ![t] = "idle"]
  /\ dist_mutex' = 0
  /\ UNCHANGED <<feed_arg, delivered, dist_vars, now>>

\* the steady clock advances by one second while the threads run
FeedClock ==
  /\ DistanceClock
  /\ UNCHANGED feed_vars

\* ------------------------------------------------------------------------
\* Wire protocol: packet header and streaming parser (protocol.cpp)
\* ------------------------------------------------------------------------

\* "SEAD" in little-endian, 0x44414553
PROTOCOL_MAGIC == 1145128275

PROTOCOL_VERSION == 1

MAX_PAYLOAD_SIZE_decimal == 16 * 1000 * 1000

MAX_PAYLOAD_SIZE == 16 * 1024 * 1024

PACKET_HEADER_SIZE == 12

\* MessageType::Hello, MessageType::HelloAck
MessageTypes == {1, 2}

\* the byte the payloads are filled with (0xAA)
PayloadBytes == {170}

Payloads == UNION {[1..n -> PayloadBytes] : n \in 0..MaxPayload}

write_u16(val) == <<val % 256, (val \div 256) % 256>>

write_u32(val) ==
  <<val % 256, (val \div 256) % 256, (val \div 65536) % 256,
    (val \div 16777216) % 256>>

read_u16(d) == d[1] + d[2] * 256

read_u32_bigEndian(d) == d[4] + d[3] * 256 + d[2] * 65536 + d[1] * 16777216

read_u32(d) == d[1] + d[2] * 256 + d[3] * 65536 + d[4] * 16777216

PacketHeader(magic, version, type, flags, payload_size) ==
  [magic |-> magic, version |-> version, type |-> type, flags |-> flags,
   payload_size |-> payload_size]

\* a default-constructed PacketHeader is not read by any caller
NoHeader == PacketHeader(0, 0, 0, 0, 0)

create(msg_type, payload_len) ==
  PacketHeader(PROTOCOL_MAGIC, PROTOCOL_VERSION, msg_type, 0, payload_len)

is_valid(header) ==
  /\ header.magic = PROTOCOL_MAGIC
  /\ header.version = PROTOCOL_VERSION
  /\ header.payload_size <= MAX_PAYLOAD_SIZE

serialize_header(header) ==
  write_u32(header.magic) \o <<header.version, header.type>>
    \o write_u16(header.flags) \o write_u32(header.payload_size)

\* Result<PacketHeader>: the error code and message, or the header
DecodeResult(code, what, header) ==
  [code |-> code, what |-> what, header |-> header]

deserialize_header(buf) ==
  IF Len(buf) < PACKET_HEADER_SIZE
  THEN DecodeResult("InvalidArgument", "Header too short", NoHeader)
  ELSE LET header == PacketHeader(read_u32(SubSeq(buf, 1, 4)), buf[5], buf[6],
                                  read_u16(SubSeq(buf, 7, 8)),
                                  read_u32(SubSeq(buf, 9, 12)))
       IN IF ~is_valid(header) /\ header.magic # PROTOCOL_MAGIC
          THEN DecodeResult("InvalidArgument", "Invalid magic number", NoHeader)
          ELSE IF ~is_valid(header) /\ header.version # PROTOCOL_VERSION
          THEN DecodeResult("NotSupported", "Protocol version mismatch",
                            NoHeader)
          ELSE IF ~is_valid(header) /\ header.payload_size > MAX_PAYLOAD_SIZE
          THEN DecodeResult("InvalidArgument", "Payload too large", NoHeader)
          ELSE DecodeResult("Ok", "", header)

build_packet(type, payload) ==
  serialize_header(create(type, Len(payload))) \o payload

\* ---- header decode on its own ----

\* payload sizes around 16 MiB
PayloadSizeInputs == {0, 16777215, 16777216, 16777217}

\* header fields a peer can put on the wire
HeaderInputs ==
  {PacketHeader(magic, version, type, 0, payload_size) :
     magic \in {PROTOCOL_MAGIC, 0}, version \in 0..MaxVersion,
     type \in MessageTypes,
     payload_size \in PayloadSizeInputs}

NotDecoded == [input |-> << >>, code |-> "none", what |-> "", header |-> NoHeader]

SerializeHeader(header) ==
  /\ header_bytes' = serialize_header(header)
  /\ UNCHANGED <<decode_last, not_header_vars>>

\* the caller hands over fewer bytes than a header has
TruncateHeader ==
  /\ Len(header_bytes) = PACKET_HEADER_SIZE
  /\ header_bytes' = SubSeq(header_bytes, 1, PACKET_HEADER_SIZE - 1)
  /\ UNCHANGED <<decode_last, not_header_vars>>

DeserializeHeader ==
  /\ LET r == deserialize_header(header_bytes)
     IN decode_last' = [input |-> header_bytes, code |-> r.code,
                        what |-> r.what, header |-> r.header]
  /\ UNCHANGED <<header_bytes, not_header_vars>>

\* ---- PacketParser ----

\* the packets a well-behaved peer sends
ValidPackets == {build_packet(type, payload) : type \in MessageTypes,
                                               payload \in Payloads}

\* what can arrive: the packets above, and packets whose header has a wrong
\* magic number or a version this build does not speak
WirePackets ==
  ValidPackets
    \cup {[build_packet(1, << >>) EXCEPT ![1] = 0]}
    \cup {[build_packet(1, << >>) EXCEPT ![5] = PROTOCOL_VERSION + 1]}

RECURSIVE Flatten(_)
Flatten(pkts) ==
  IF pkts = << >> THEN << >> ELSE Head(pkts) \o Flatten(Tail(pkts))

\* the byte stream the transport delivers
stream == Flatten(sent)

ParseCall(op, res, had, before, header, payload) ==
  [op |-> op, res |-> res, had |-> had, before |-> before, header |-> header,
   payload |-> payload]

\* where in the stream position pos lies: inside a header, inside a payload,
\* or on a packet boundary
RECURSIVE CutAt(_, _)
CutAt(pkts, pos) ==
  IF pkts = << >> \/ pos = 0 THEN {}
  ELSE IF pos >= Len(Head(pkts)) THEN CutAt(Tail(pkts), pos - Len(Head(pkts)))
  ELSE IF pos < PACKET_HEADER_SIZE THEN {"mid-header"}
  ELSE {"mid-payload"}

\* a chunk from..to that holds a whole packet and the start of the next
Several(from, to) ==
  IF \E k \in 1..Len(sent) :
       LET first == Len(Flatten(SubSeq(sent, 1, k - 1)))
           last == Len(Flatten(SubSeq(sent, 1, k)))
       IN from <= first /\ last < to
  THEN {"several"} ELSE {}

\* buf.insert(buf.end(), data.begin(), data.end())
insert_end_assign(buf, data) == data

insert_end(buf, data) == buf \o data

\* buf.erase(buf.begin(), buf.begin() + n)
erase_begin_clear(buf, n) == << >>

erase_begin(buf, n) == SubSeq(buf, n + 1, Len(buf))

HasPacket(buf) ==
  IF Len(buf) < PACKET_HEADER_SIZE THEN FALSE
  ELSE LET payload_size == read_u32(SubSeq(buf, 9, 12))
       IN Len(buf) >= PACKET_HEADER_SIZE + payload_size

has_packet == HasPacket(buffer_)

\* feed() with the next n bytes of the stream
Feed(n) ==
  /\ fed_len + n <= Len(stream)
  /\ buffer_' = insert_end(buffer_, SubSeq(stream, fed_len + 1, fed_len + n))
  /\ fed_len' = fed_len + n
  /\ split_seen' = split_seen \cup CutAt(sent, fed_len + n)
                              \cup Several(fed_len, fed_len + n)
  /\ parse_last' = ParseCall("feed", "void", FALSE, << >>, NoHeader, << >>)
  /\ UNCHANGED <<sent, out, not_parser_vars>>

NextPacket ==
  /\ LET had == has_packet
         header_result == deserialize_header(SubSeq(buffer_, 1, PACKET_HEADER_SIZE))
         header == header_result.header
         size == PACKET_HEADER_SIZE + header.payload_size
     IN IF ~had
        THEN /\ parse_last' = ParseCall("next_packet", "InvalidState", had,
                                        buffer_, NoHeader, << >>)
             /\ UNCHANGED <<buffer_, out>>
        ELSE IF header_result.code # "Ok"
        THEN /\ parse_last' = ParseCall("next_packet", header_result.code, had,
                                        buffer_, NoHeader, << >>)
             /\ UNCHANGED <<buffer_, out>>
        ELSE LET payload == SubSeq(buffer_, PACKET_HEADER_SIZE + 1, size)
             IN /\ buffer_' = erase_begin(buffer_, size)
                /\ out' = Append(out, [header |-> header, payload |-> payload])
                /\ parse_last' = ParseCall("next_packet", "Ok", had, buffer_,
                                           header, payload)
  /\ UNCHANGED <<sent, fed_len, split_seen, not_parser_vars>>

\* the pairs a parser returns that is fed buf in one call and then drained
RECURSIVE ParseAll(_)
ParseAll(buf) ==
  IF ~HasPacket(buf) THEN << >>
  ELSE LET header_result == deserialize_header(SubSeq(buf, 1, PACKET_HEADER_SIZE))
           header == header_result.header
           size == PACKET_HEADER_SIZE + header.payload_size
       IN IF header_result.code # "Ok" THEN << >>
          ELSE <<[header |-> header,
                  payload |-> SubSeq(buf, PACKET_HEADER_SIZE + 1, size)]>>
                 \o ParseAll(erase_begin(buf, size))

\* ------------------------------------------------------------------------
\* TransferManager (transfer.cpp)
\* ------------------------------------------------------------------------

\* one more transfer id than the history is claimed to hold
NumTransferIds == HistoryCapacity + 1

TransferIds == 1..NumTransferIds

\* TransferRequest::expires_at, seconds after the request was created
RequestTimeout == 60

\* no entry under a key of pending_requests
NoRequest == [present |-> FALSE, expires_at |-> 0]

\* TransferId::generate() draws 16 random bytes: an id not met before
Fresh(id) ==
  /\ active_transfers[id] = "none"
  /\ ~pending_requests[id].present
  /\ completed_transfers[id] = "none"

\* TransferRequest::is_expired
request_is_expired(request) == sys_now > request.expires_at

\* how the request under a key stands when accept or reject is called
RequestStanding(id) ==
  IF ~pending_requests[id].present THEN "unknown"
  ELSE IF request_is_expired(pending_requests[id]) THEN "expired"
  ELSE "pending"

TmCall(op, id, res, was, req, cb) ==
  [op |-> op, id |-> id, res |-> res, was |-> was, req |-> req, cb |-> cb]

TransferInit ==
  /\ IF tm_initialized
     THEN /\ tm_last' = TmCall("init", 0, "AlreadyInitialized", "none", "unknown", FALSE)
          /\ UNCHANGED tm_initialized
     ELSE /\ tm_initialized' = TRUE
          /\ tm_last' = TmCall("init", 0, "Ok", "none", "unknown", FALSE)
  /\ UNCHANGED <<active_transfers, pending_requests, completed_transfers,
                 complete_cb, sys_now, not_transfer_vars>>

TransferShutdown ==
  /\ active_transfers' = [id \in TransferIds |-> "none"]
  /\ pending_requests' = [id \in TransferIds |-> NoRequest]
  /\ tm_initialized' = FALSE
  /\ tm_last' = TmCall("shutdown", 0, "void", "none", "unknown", FALSE)
  /\ UNCHANGED <<completed_transfers, complete_cb, sys_now, not_transfer_vars>>

\* send_text and send_data; send_files of existing files ends the same way
SendData(id) ==
  /\ Fresh(id)
  /\ IF ~tm_initialized
     THEN /\ tm_last' = TmCall("send_data", 0, "NotInitialized", "none", "unknown", FALSE)
          /\ UNCHANGED active_transfers
     ELSE /\ active_transfers' = [active_transfers EXCEPT ![id] = "Pending"]
          /\ tm_last' = TmCall("send_data", id, "Ok", "none", "unknown", FALSE)
  /\ UNCHANGED <<tm_initialized, pending_requests, completed_transfers,
                 complete_cb, sys_now, not_transfer_vars>>

\* a TransferRequest of the peer arrives and waits for accept or reject
ReceiveRequest(id) ==
  /\ tm_initialized
  /\ Fresh(id)
  /\ pending_requests' = [pending_requests EXCEPT ![id] =
                            [present |-> TRUE,
                             expires_at |-> sys_now + RequestTimeout]]
  /\ tm_last' = TmCall("receive_request", id, "void", "none", "unknown", FALSE)
  /\ UNCHANGED <<tm_initialized, active_transfers, completed_transfers,
                 complete_cb, sys_now, not_transfer_vars>>

\* requests past their expires_at are rejected on the user's behalf
ExpireRequests ==
  /\ \E id \in TransferIds : RequestStanding(id) = "expired"
  /\ pending_requests' = [id \in TransferIds |->
                            IF RequestStanding(id) = "expired" THEN NoRequest
                            ELSE pending_requests[id]]
  /\ tm_last' = TmCall("expire_requests", 0, "void", "none", "unknown", FALSE)
  /\ UNCHANGED <<tm_initialized, active_transfers, completed_transfers,
                 complete_cb, sys_now, not_transfer_vars>>

AcceptTransfer(id) ==
  /\ IF ~pending_requests[id].present
     THEN /\ tm_last' = TmCall("accept_transfer", id, "RecordNotFound",
                               active_transfers[id], RequestStanding(id), FALSE)
          /\ UNCHANGED <<active_transfers, pending_requests>>
     ELSE /\ active_transfers' = [active_transfers EXCEPT ![id] = "InProgress"]
          /\ pending_requests' = [pending_requests EXCEPT ![id] = NoRequest]
          /\ tm_last' = TmCall("accept_transfer", id, "Ok",
                               active_transfers[id], RequestStanding(id), FALSE)
  /\ UNCHANGED <<tm_initialized, completed_transfers, complete_cb, sys_now,
                 not_transfer_vars>>

RejectTransfer(id) ==
  /\ pending_requests' = [pending_requests EXCEPT ![id] = NoRequest]
  /\ tm_last' = TmCall("reject_transfer", id, "void", active_transfers[id],
                       RequestStanding(id), FALSE)
  /\ UNCHANGED <<tm_initialized, active_transfers, completed_transfers,
                 complete_cb, sys_now, not_transfer_vars>>

PauseTransfer_anyState(id) ==
  /\ IF active_transfers[id] = "none"
     THEN /\ tm_last' = TmCall("pause_transfer", id, "RecordNotFound", "none",
                               "unknown", FALSE)
          /\ UNCHANGED active_transfers
     ELSE /\ active_transfers' = [active_transfers EXCEPT ![id] = "Paused"]
          /\ tm_last' = TmCall("pause_transfer", id, "Ok",
                               active_transfers[id], "unknown", FALSE)
  /\ UNCHANGED <<tm_initialized, pending_requests, completed_transfers,
                 complete_cb, sys_now, not_transfer_vars>>

PauseTransfer(id) ==
  /\ IF active_transfers[id] = "none"
     THEN /\ tm_last' = TmCall("pause_transfer", id, "RecordNotFound", "none",
                               "unknown", FALSE)
          /\ UNCHANGED active_transfers
     ELSE IF active_transfers[id] # "InProgress"
     THEN /\ tm_last' = TmCall("pause_transfer", id, "InvalidState",
                               active_transfers[id], "unknown", FALSE)
          /\ UNCHANGED active_transfers
     ELSE /\ active_transfers' = [active_transfers EXCEPT ![id] = "Paused"]
          /\ tm_last' = TmCall("pause_transfer", id, "Ok",
                               active_transfers[id], "unknown", FALSE)
  /\ UNCHANGED <<tm_initialized, pending_requests, completed_transfers,
                 complete_cb, sys_now, not_transfer_vars>>

ResumeTransfer(id) ==
  /\ IF active_transfers[id] = "none"
     THEN /\ tm_last' = TmCall("resume_transfer", id, "RecordNotFound", "none",
                               "unknown", FALSE)
          /\ UNCHANGED active_transfers
     ELSE IF active_transfers[id] # "Paused"
     THEN /\ tm_last' = TmCall("resume_transfer", id, "InvalidState",
                               active_transfers[id], "unknown", FALSE)
          /\ UNCHANGED active_transfers
     ELSE /\ active_transfers' = [active_transfers EXCEPT ![id] = "InProgress"]
          /\ tm_last' = TmCall("resume_transfer", id, "Ok",
                               active_transfers[id], "unknown", FALSE)
  /\ UNCHANGED <<tm_initialized, pending_requests, completed_transfers,
                 complete_cb, sys_now, not_transfer_vars>>

CancelTransfer_resultAnyway(id) ==
  /\ completed_transfers' = [completed_transfers EXCEPT ![id] = "Cancelled"]
  /\ active_transfers' = [active_transfers EXCEPT ![id] = "none"]
  /\ tm_last' = TmCall("cancel_transfer", id, "void", active_transfers[id],
                       "unknown", complete_cb)
  /\ UNCHANGED <<tm_initialized, pending_requests, complete_cb, sys_now,
                 not_transfer_vars>>

CancelTransfer(id) ==
  /\ IF active_transfers[id] # "none"
     THEN /\ completed_transfers' =
               [completed_transfers EXCEPT ![id] = "Cancelled"]
          /\ active_transfers' = [active_transfers EXCEPT ![id] = "none"]
          /\ tm_last' = TmCall("cancel_transfer", id, "void",
                               active_transfers[id], "unknown", complete_cb)
     ELSE /\ tm_last' = TmCall("cancel_transfer", id, "void", "none",
                               "unknown", FALSE)
          /\ UNCHANGED <<active_transfers, completed_transfers>>
  /\ UNCHANGED <<tm_initialized, pending_requests, complete_cb, sys_now,
                 not_transfer_vars>>

\* on_complete with a non-empty callback
OnComplete ==
  /\ complete_cb' = TRUE
  /\ tm_last' = TmCall("on_complete", 0, "void", "none", "unknown", FALSE)
  /\ UNCHANGED <<tm_initialized, active_transfers, pending_requests,
                 completed_transfers, sys_now, not_transfer_vars>>

\* the system clock advances
TransferClock ==
  /\ sys_now < MaxSysNow
  /\ sys_now' = sys_now + SysTick
  /\ UNCHANGED <<tm_initialized, active_transfers, pending_requests,
                 completed_transfers, complete_cb, tm_last, not_transfer_vars>>

\* ------------------------------------------------------------------------
\* DiscoveryManager, ConnectionManager and the SeaDrop object that owns one
\* of each (discovery.cpp, connection.cpp, seadrop.cpp)
\* ------------------------------------------------------------------------

\* the classes a caller drives
Apis == {"SeaDrop", "DiscoveryManager", "ConnectionManager"}

\* record of one call: operation, result, and the state changes that
\* Impl::set_state or an assignment to Impl::state made during it
CoreCall(op, res, changes) == [op |-> op, res |-> res, changes |-> changes]

\* the caller is not stuck inside an earlier call
Returned == core_last.res # "blocked"

\* Impl::set_state(new_state) of the three classes: the change it makes
set_state(of, from, to) ==
  IF from # to THEN <<[of |-> of, from |-> from, to |-> to]>> ELSE << >>

\* the state DiscoveryManager::stop() leaves
stop(s) == IF s # "Uninitialized" THEN "Idle" ELSE s

\* the changes DiscoveryManager::shutdown() makes once stop() has the mutex
DiscoveryShutdownChanges(s) ==
  set_state("Discovery", s, stop(s))
    \o set_state("Discovery", stop(s), "Uninitialized")

\* the changes ConnectionManager::disconnect() makes
disconnect(s) ==
  IF s = "Disconnected" THEN << >>
  ELSE set_state("Connection", s, "Disconnecting")
         \o set_state("Connection", "Disconnecting", "Disconnected")

\* a DiscoveryManager operation that returns res and leaves state to
DiscoveryMoves(op, res, to) ==
  /\ api = "DiscoveryManager"
  /\ Returned
  /\ discovery_state' = to
  /\ core_last' = CoreCall(op, res, set_state("Discovery", discovery_state, to))
  /\ UNCHANGED <<api, seadrop_state, connection_state, not_core_vars>>

DiscoveryInit == DiscoveryMoves("init", "Ok", "Idle")

DiscoveryStart == DiscoveryMoves("start", "Ok", "Active")

DiscoveryStop == DiscoveryMoves("stop", "void", stop(discovery_state))

StartAdvertising ==
  DiscoveryMoves("start_advertising", "Ok",
                 IF discovery_state = "Idle" THEN "Advertising"
                 ELSE IF discovery_state = "Scanning" THEN "Active"
                 ELSE discovery_state)

StopAdvertising ==
  DiscoveryMoves("stop_advertising", "void",
                 IF discovery_state = "Advertising" THEN "Idle"
                 ELSE IF discovery_state = "Active" THEN "Scanning"
                 ELSE discovery_state)

StartScanning ==
  DiscoveryMoves("start_scanning", "Ok",
                 IF discovery_state = "Idle" THEN "Scanning"
                 ELSE IF discovery_state = "Advertising" THEN "Active"
                 ELSE discovery_state)

StopScanning ==
  DiscoveryMoves("stop_scanning", "void",
                 IF discovery_state = "Scanning" THEN "Idle"
                 ELSE IF discovery_state = "Active" THEN "Advertising"
                 ELSE discovery_state)

\* shutdown() holds the mutex and calls stop(), which locks it again
DiscoveryShutdown ==
  /\ api = "DiscoveryManager"
  /\ Returned
  /\ IF relock = "blocks"
     THEN /\ core_last' = CoreCall("shutdown", "blocked", << >>)
          /\ UNCHANGED discovery_state
     ELSE /\ discovery_state' = "Uninitialized"
          /\ core_last' = CoreCall("shutdown", "void",
                                   DiscoveryShutdownChanges(discovery_state))
  /\ UNCHANGED <<api, seadrop_state, connection_state, not_core_vars>>

\* a ConnectionManager operation that returns res after the given changes
ConnectionMoves(op, res, to, changes) ==
  /\ api = "ConnectionManager"
  /\ Returned
  /\ connection_state' = to
  /\ core_last' = CoreCall(op, res, changes)
  /\ UNCHANGED <<api, seadrop_state, discovery_state, not_core_vars>>

\* init() assigns Impl::state without set_state
ConnectionInit ==
  ConnectionMoves("init", "Ok", "Disconnected",
                  set_state("Connection", connection_state, "Disconnected"))

Connect ==
  IF connection_state # "Disconnected"
  THEN ConnectionMoves("connect", "AlreadyConnected", connection_state, << >>)
  ELSE ConnectionMoves("connect", "Ok", "Connecting",
                       set_state("Connection", connection_state, "Connecting"))

Disconnect ==
  ConnectionMoves("disconnect", "void", "Disconnected",
                  disconnect(connection_state))

CancelConnection ==
  IF connection_state \in {"Connecting", "Establishing", "Handshaking"}
  THEN ConnectionMoves("cancel_connection", "void", "Disconnected",
                       set_state("Connection", connection_state, "Disconnected"))
  ELSE ConnectionMoves("cancel_connection", "void", connection_state, << >>)

\* shutdown() holds the mutex and calls disconnect(), which locks it again
ConnectionShutdown ==
  IF relock = "blocks"
  THEN ConnectionMoves("shutdown", "blocked", connection_state, << >>)
  ELSE ConnectionMoves("shutdown", "void", "Disconnected",
                       disconnect(connection_state))

\* a SeaDrop operation: result, and the states it leaves in the object and
\* in its two managers
SeaDropMoves(op, res, to, disc, conn) ==
  /\ api = "SeaDrop"
  /\ Returned
  /\ seadrop_state' = to
  /\ discovery_state' = disc
  /\ connection_state' = conn
  /\ core_last' = CoreCall(op, res, << >>)
  /\ UNCHANGED <<api, not_core_vars>>

\* init(config): valid is FALSE when config.validate(), security_init() or
\* KeyPair::generate() fails; the two managers are not initialised by it
SeaDropInit(valid) ==
  IF seadrop_state # "Uninitialized"
  THEN SeaDropMoves("init", "AlreadyInitialized", seadrop_state,
                    discovery_state, connection_state)
  ELSE IF ~valid
  THEN SeaDropMoves("init", "Error", seadrop_state, discovery_state,
                    connection_state)
  ELSE SeaDropMoves("init", "Ok", "Idle", discovery_state, connection_state)

StartDiscovery ==
  IF seadrop_state = "Uninitialized"
  THEN SeaDropMoves("start_discovery", "NotInitialized", seadrop_state,
                    discovery_state, connection_state)
  ELSE SeaDropMoves("start_discovery", "Ok",
                    IF seadrop_state = "Idle" THEN "Discovering"
                    ELSE seadrop_state,
                    "Active", connection_state)

StopDiscovery ==
  SeaDropMoves("stop_discovery", "void",
               IF seadrop_state = "Discovering" THEN "Idle" ELSE seadrop_state,
               stop(discovery_state), connection_state)

SeaDropConnect ==
  IF connection_state # "Disconnected"
  THEN SeaDropMoves("connect", "AlreadyConnected", seadrop_state,
                    discovery_state, connection_state)
  ELSE SeaDropMoves("connect", "Ok", seadrop_state, discovery_state,
                    "Connecting")

\* shutdown(): discovery.shutdown() is the first subsystem call it makes
SeaDropShutdown ==
  IF seadrop_state = "Uninitialized"
  THEN SeaDropMoves("shutdown", "void", seadrop_state, discovery_state,
                    connection_state)
  ELSE IF relock = "blocks"
  THEN SeaDropMoves("shutdown", "blocked", seadrop_state, discovery_state,
                    connection_state)
  ELSE SeaDropMoves("shutdown", "void", "Uninitialized", "Uninitialized",
                    "Disconnected")

\* ------------------------------------------------------------------------
\* Specifications
\* ------------------------------------------------------------------------

\* a machine right after construction, no callback registered, next to an
\* empty, uninitialized store (DeviceStore::DeviceStore)
InitSM ==
  /\ kind \in MachineKinds
  /\ relock \in RelockOutcomes
  /\ initial \in ConstructibleStates(kind)
  /\ state_ = initial
  /\ state_changed_cb_ = FALSE
  /\ terminal_cb_ = FALSE
  /\ mutex_ = "free"
  /\ cb_log = << >>
  /\ sm_last = SmCall("construct", initial, initial, "void")
  /\ initialized = FALSE
  /\ devices = << >>
  /\ shared_keys = << >>
  /\ store_last = StoreCall("construct", 0, "void")
  /\ store = FALSE
  /\ current_pairing = NoPairing
  /\ ephemeral_keys = FALSE
  /\ now = 0
  /\ pair_last = PairCall("construct", 0, "void")
  /\ trust_level = "Unknown"
  /\ peer_zone = "Unknown"
  /\ policy_last = PolicyCall("construct", 0, FALSE)
  /\ tracked = FALSE
  /\ readings = << >>
  /\ current_info = NoInfo
  /\ last_zone = "Unknown"
  /\ last_zone_change = 0
  /\ thresholds = DefaultThresholds
  /\ smoothing_window = 5
  /\ zone_hysteresis = 2000
  /\ zone_changed_cb = FALSE
  /\ security_alert_cb = FALSE
  /\ dist_last = DistCall("construct", "void")
  /\ feed_pc = [t \in FeedThreads |-> "idle"]
  /\ feed_arg = [t \in FeedThreads |-> 0]
  /\ dist_mutex = 0
  /\ delivered = NoneDelivered
  /\ sent = << >>
  /\ fed_len = 0
  /\ buffer_ = << >>
  /\ out = << >>
  /\ split_seen = {}
  /\ parse_last = ParseCall("construct", "void", FALSE, << >>, NoHeader, << >>)
  /\ header_bytes = << >>
  /\ decode_last = NotDecoded
  /\ tm_initialized = FALSE
  /\ active_transfers = [id \in TransferIds |-> "none"]
  /\ pending_requests = [id \in TransferIds |-> NoRequest]
  /\ completed_transfers = [id \in TransferIds |-> "none"]
  /\ complete_cb = FALSE
  /\ sys_now = 0
  /\ tm_last = TmCall("construct", 0, "void", "none", "unknown", FALSE)
  /\ api = "SeaDrop"
  /\ seadrop_state = "Uninitialized"
  /\ discovery_state = "Uninitialized"
  /\ connection_state = "Disconnected"
  /\ core_last = CoreCall("construct", "void", << >>)

\* DeviceStore::DeviceStore: an empty, uninitialized store, next to a
\* default-constructed TransferStateMachine that is left alone
InitStore ==
  /\ initialized = FALSE
  /\ devices = << >>
  /\ shared_keys = << >>
  /\ store_last = StoreCall("construct", 0, "void")
  /\ kind = "Transfer"
  /\ relock = "proceeds"
  /\ initial = "Pending"
  /\ state_ = "Pending"
  /\ state_changed_cb_ = FALSE
  /\ terminal_cb_ = FALSE
  /\ mutex_ = "free"
  /\ cb_log = << >>
  /\ sm_last = SmCall("construct", "Pending", "Pending", "void")
  /\ store = FALSE
  /\ current_pairing = NoPairing
  /\ ephemeral_keys = FALSE
  /\ now = 0
  /\ pair_last = PairCall("construct", 0, "void")
  /\ trust_level = "Unknown"
  /\ peer_zone = "Unknown"
  /\ policy_last = PolicyCall("construct", 0, FALSE)
  /\ tracked = FALSE
  /\ readings = << >>
  /\ current_info = NoInfo
  /\ last_zone = "Unknown"
  /\ last_zone_change = 0
  /\ thresholds = DefaultThresholds
  /\ smoothing_window = 5
  /\ zone_hysteresis = 2000
  /\ zone_changed_cb = FALSE
  /\ security_alert_cb = FALSE
  /\ dist_last = DistCall("construct", "void")
  /\ feed_pc = [t \in FeedThreads |-> "idle"]
  /\ feed_arg = [t \in FeedThreads |-> 0]
  /\ dist_mutex = 0
  /\ delivered = NoneDelivered
  /\ sent = << >>
  /\ fed_len = 0
  /\ buffer_ = << >>
  /\ out = << >>
  /\ split_seen = {}
  /\ parse_last = ParseCall("construct", "void", FALSE, << >>, NoHeader, << >>)
  /\ header_bytes = << >>
  /\ decode_last = NotDecoded
  /\ tm_initialized = FALSE
  /\ active_transfers = [id \in TransferIds |-> "none"]
  /\ pending_requests = [id \in TransferIds |-> NoRequest]
  /\ completed_transfers = [id \in TransferIds |-> "none"]
  /\ complete_cb = FALSE
  /\ sys_now = 0
  /\ tm_last = TmCall("construct", 0, "void", "none", "unknown", FALSE)
  /\ api = "SeaDrop"
  /\ seadrop_state = "Uninitialized"
  /\ discovery_state = "Uninitialized"
  /\ connection_state = "Disconnected"
  /\ core_last = CoreCall("construct", "void", << >>)

\* PairingManager::PairingManager next to an empty DeviceStore, as
\* SeaDrop::Impl holds them, and a default-constructed TransferStateMachine
\* that is left alone
InitPairing ==
  /\ store = FALSE
  /\ current_pairing = NoPairing
  /\ ephemeral_keys = FALSE
  /\ now = 0
  /\ pair_last = PairCall("construct", 0, "void")
  /\ initialized = FALSE
  /\ devices = << >>
  /\ shared_keys = << >>
  /\ store_last = StoreCall("construct", 0, "void")
  /\ kind = "Transfer"
  /\ relock = "proceeds"
  /\ initial = "Pending"
  /\ state_ = "Pending"
  /\ state_changed_cb_ = FALSE
  /\ terminal_cb_ = FALSE
  /\ mutex_ = "free"
  /\ cb_log = << >>
  /\ sm_last = SmCall("construct", "Pending", "Pending", "void")
  /\ trust_level = "Unknown"
  /\ peer_zone = "Unknown"
  /\ policy_last = PolicyCall("construct", 0, FALSE)
  /\ tracked = FALSE
  /\ readings = << >>
  /\ current_info = NoInfo
  /\ last_zone = "Unknown"
  /\ last_zone_change = 0
  /\ thresholds = DefaultThresholds
  /\ smoothing_window = 5
  /\ zone_hysteresis = 2000
  /\ zone_changed_cb = FALSE
  /\ security_alert_cb = FALSE
  /\ dist_last = DistCall("construct", "void")
  /\ feed_pc = [t \in FeedThreads |-> "idle"]
  /\ feed_arg = [t \in FeedThreads |-> 0]
  /\ dist_mutex = 0
  /\ delivered = NoneDelivered
  /\ sent = << >>
  /\ fed_len = 0
  /\ buffer_ = << >>
  /\ out = << >>
  /\ split_seen = {}
  /\ parse_last = ParseCall("construct", "void", FALSE, << >>, NoHeader, << >>)
  /\ header_bytes = << >>
  /\ decode_last = NotDecoded
  /\ tm_initialized = FALSE
  /\ active_transfers = [id \in TransferIds |-> "none"]
  /\ pending_requests = [id \in TransferIds |-> NoRequest]
  /\ completed_transfers = [id \in TransferIds |-> "none"]
  /\ complete_cb = FALSE
  /\ sys_now = 0
  /\ tm_last = TmCall("construct", 0, "void", "none", "unknown", FALSE)
  /\ api = "SeaDrop"
  /\ seadrop_state = "Uninitialized"
  /\ discovery_state = "Uninitialized"
  /\ connection_state = "Disconnected"
  /\ core_last = CoreCall("construct", "void", << >>)

\* a peer of any trust level in any zone, nothing asked yet, next to an
\* empty DeviceStore, an idle PairingManager and a default-constructed
\* TransferStateMachine that are left alone
InitPolicy ==
  /\ trust_level \in TrustLevel
  /\ peer_zone \in TrustZone
  /\ policy_last = PolicyCall("construct", 0, FALSE)
  /\ store = FALSE
  /\ current_pairing = NoPairing
  /\ ephemeral_keys = FALSE
  /\ now = 0
  /\ pair_last = PairCall("construct", 0, "void")
  /\ initialized = FALSE
  /\ devices = << >>
  /\ shared_keys = << >>
  /\ store_last = StoreCall("construct", 0, "void")
  /\ kind = "Transfer"
  /\ relock = "proceeds"
  /\ initial = "Pending"
  /\ state_ = "Pending"
  /\ state_changed_cb_ = FALSE
  /\ terminal_cb_ = FALSE
  /\ mutex_ = "free"
  /\ cb_log = << >>
  /\ sm_last = SmCall("construct", "Pending", "Pending", "void")
  /\ tracked = FALSE
  /\ readings = << >>
  /\ current_info = NoInfo
  /\ last_zone = "Unknown"
  /\ last_zone_change = 0
  /\ thresholds = DefaultThresholds
  /\ smoothing_window = 5
  /\ zone_hysteresis = 2000
  /\ zone_changed_cb = FALSE
  /\ security_alert_cb = FALSE
  /\ dist_last = DistCall("construct", "void")
  /\ feed_pc = [t \in FeedThreads |-> "idle"]
  /\ feed_arg = [t \in FeedThreads |-> 0]
  /\ dist_mutex = 0
  /\ delivered = NoneDelivered
  /\ sent = << >>
  /\ fed_len = 0
  /\ buffer_ = << >>
  /\ out = << >>
  /\ split_seen = {}
  /\ parse_last = ParseCall("construct", "void", FALSE, << >>, NoHeader, << >>)
  /\ header_bytes = << >>
  /\ decode_last = NotDecoded
  /\ tm_initialized = FALSE
  /\ active_transfers = [id \in TransferIds |-> "none"]
  /\ pending_requests = [id \in TransferIds |-> NoRequest]
  /\ completed_transfers = [id \in TransferIds |-> "none"]
  /\ complete_cb = FALSE
  /\ sys_now = 0
  /\ tm_last = TmCall("construct", 0, "void", "none", "unknown", FALSE)
  /\ api = "SeaDrop"
  /\ seadrop_state = "Uninitialized"
  /\ discovery_state = "Uninitialized"
  /\ connection_state = "Disconnected"
  /\ core_last = CoreCall("construct", "void", << >>)

\* DistanceMonitor::DistanceMonitor: no peer tracked, default thresholds,
\* window and hysteresis, no callback registered, next to the other
\* components, which are left alone
InitDistance ==
  /\ tracked = FALSE
  /\ readings = << >>
  /\ current_info = NoInfo
  /\ last_zone = "Unknown"
  /\ last_zone_change = 0
  /\ thresholds = DefaultThresholds
  /\ smoothing_window = 5
  /\ zone_hysteresis = 2000
  /\ zone_changed_cb = FALSE
  /\ security_alert_cb = FALSE
  /\ dist_last = DistCall("construct", "void")
  /\ now = DistClockStart
  /\ trust_level = "Unknown"
  /\ peer_zone = "Unknown"
  /\ policy_last = PolicyCall("construct", 0, FALSE)
  /\ store = FALSE
  /\ current_pairing = NoPairing
  /\ ephemeral_keys = FALSE
  /\ pair_last = PairCall("construct", 0, "void")
  /\ initialized = FALSE
  /\ devices = << >>
  /\ shared_keys = << >>
  /\ store_last = StoreCall("construct", 0, "void")
  /\ kind = "Transfer"
  /\ relock = "proceeds"
  /\ initial = "Pending"
  /\ state_ = "Pending"
  /\ state_changed_cb_ = FALSE
  /\ terminal_cb_ = FALSE
  /\ mutex_ = "free"
  /\ cb_log = << >>
  /\ sm_last = SmCall("construct", "Pending", "Pending", "void")
  /\ feed_pc = [t \in FeedThreads |-> "idle"]
  /\ feed_arg = [t \in FeedThreads |-> 0]
  /\ dist_mutex = 0
  /\ delivered = NoneDelivered
  /\ sent = << >>
  /\ fed_len = 0
  /\ buffer_ = << >>
  /\ out = << >>
  /\ split_seen = {}
  /\ parse_last = ParseCall("construct", "void", FALSE, << >>, NoHeader, << >>)
  /\ header_bytes = << >>
  /\ decode_last = NotDecoded
  /\ tm_initialized = FALSE
  /\ active_transfers = [id \in TransferIds |-> "none"]
  /\ pending_requests = [id \in TransferIds |-> NoRequest]
  /\ completed_transfers = [id \in TransferIds |-> "none"]
  /\ complete_cb = FALSE
  /\ sys_now = 0
  /\ tm_last = TmCall("construct", 0, "void", "none", "unknown", FALSE)
  /\ api = "SeaDrop"
  /\ seadrop_state = "Uninitialized"
  /\ discovery_state = "Uninitialized"
  /\ connection_state = "Disconnected"
  /\ core_last = CoreCall("construct", "void", << >>)

\* a DistanceMonitor configured before the feeding threads start: both
\* callbacks registered, the hysteresis and the smoothing window as
\* constructed or as set; no peer tracked, no thread inside feed_rssi
InitFeed ==
  /\ feed_pc = [t \in FeedThreads |-> "idle"]
  /\ feed_arg = [t \in FeedThreads |-> 0]
  /\ dist_mutex = 0
  /\ delivered = NoneDelivered
  /\ tracked = FALSE
  /\ readings = << >>
  /\ current_info = NoInfo
  /\ last_zone = "Unknown"
  /\ last_zone_change = 0
  /\ thresholds = DefaultThresholds
  /\ smoothing_window \in {5, 2}
  /\ zone_hysteresis \in {2000, 0}
  /\ zone_changed_cb = TRUE
  /\ security_alert_cb = TRUE
  /\ dist_last = DistCall("construct", "void")
  /\ now = DistClockStart
  /\ trust_level = "Unknown"
  /\ peer_zone = "Unknown"
  /\ policy_last = PolicyCall("construct", 0, FALSE)
  /\ store = FALSE
  /\ current_pairing = NoPairing
  /\ ephemeral_keys = FALSE
  /\ pair_last = PairCall("construct", 0, "void")
  /\ initialized = FALSE
  /\ devices = << >>
  /\ shared_keys = << >>
  /\ store_last = StoreCall("construct", 0, "void")
  /\ kind = "Transfer"
  /\ relock = "proceeds"
  /\ initial = "Pending"
  /\ state_ = "Pending"
  /\ state_changed_cb_ = FALSE
  /\ terminal_cb_ = FALSE
  /\ mutex_ = "free"
  /\ cb_log = << >>
  /\ sm_last = SmCall("construct", "Pending", "Pending", "void")
  /\ sent = << >>
  /\ fed_len = 0
  /\ buffer_ = << >>
  /\ out = << >>
  /\ split_seen = {}
  /\ parse_last = ParseCall("construct", "void", FALSE, << >>, NoHeader, << >>)
  /\ header_bytes = << >>
  /\ decode_last = NotDecoded
  /\ tm_initialized = FALSE
  /\ active_transfers = [id \in TransferIds |-> "none"]
  /\ pending_requests = [id \in TransferIds |-> NoRequest]
  /\ completed_transfers = [id \in TransferIds |-> "none"]
  /\ complete_cb = FALSE
  /\ sys_now = 0
  /\ tm_last = TmCall("construct", 0, "void", "none", "unknown", FALSE)
  /\ api = "SeaDrop"
  /\ seadrop_state = "Uninitialized"
  /\ discovery_state = "Uninitialized"
  /\ connection_state = "Disconnected"
  /\ core_last = CoreCall("construct", "void", << >>)

\* a fresh parser, and a stream of packets about to arrive on its connection
InitParser ==
  /\ sent \in UNION {[1..n -> WirePackets] : n \in 0..MaxPackets}
  /\ trust_level = "Unknown"
  /\ peer_zone = "Unknown"
  /\ policy_last = PolicyCall("construct", 0, FALSE)
  /\ store = FALSE
  /\ current_pairing = NoPairing
  /\ ephemeral_keys = FALSE
  /\ now = 0
  /\ pair_last = PairCall("construct", 0, "void")
  /\ initialized = FALSE
  /\ devices = << >>
  /\ shared_keys = << >>
  /\ store_last = StoreCall("construct", 0, "void")
  /\ kind = "Transfer"
  /\ relock = "proceeds"
  /\ initial = "Pending"
  /\ state_ = "Pending"
  /\ state_changed_cb_ = FALSE
  /\ terminal_cb_ = FALSE
  /\ mutex_ = "free"
  /\ cb_log = << >>
  /\ sm_last = SmCall("construct", "Pending", "Pending", "void")
  /\ tracked = FALSE
  /\ readings = << >>
  /\ current_info = NoInfo
  /\ last_zone = "Unknown"
  /\ last_zone_change = 0
  /\ thresholds = DefaultThresholds
  /\ smoothing_window = 5
  /\ zone_hysteresis = 2000
  /\ zone_changed_cb = FALSE
  /\ security_alert_cb = FALSE
  /\ dist_last = DistCall("construct", "void")
  /\ feed_pc = [t \in FeedThreads |-> "idle"]
  /\ feed_arg = [t \in FeedThreads |-> 0]
  /\ dist_mutex = 0
  /\ delivered = NoneDelivered
  /\ fed_len = 0
  /\ buffer_ = << >>
  /\ out = << >>
  /\ split_seen = {}
  /\ parse_last = ParseCall("construct", "void", FALSE, << >>, NoHeader, << >>)
  /\ header_bytes = << >>
  /\ decode_last = NotDecoded
  /\ tm_initialized = FALSE
  /\ active_transfers = [id \in TransferIds |-> "none"]
  /\ pending_requests = [id \in TransferIds |-> NoRequest]
  /\ completed_transfers = [id \in TransferIds |-> "none"]
  /\ complete_cb = FALSE
  /\ sys_now = 0
  /\ tm_last = TmCall("construct", 0, "void", "none", "unknown", FALSE)
  /\ api = "SeaDrop"
  /\ seadrop_state = "Uninitialized"
  /\ discovery_state = "Uninitialized"
  /\ connection_state = "Disconnected"
  /\ core_last = CoreCall("construct", "void", << >>)

\* no header handed to deserialize_header yet
InitHeader ==
  /\ trust_level = "Unknown"
  /\ peer_zone = "Unknown"
  /\ policy_last = PolicyCall("construct", 0, FALSE)
  /\ store = FALSE
  /\ current_pairing = NoPairing
  /\ ephemeral_keys = FALSE
  /\ now = 0
  /\ pair_last = PairCall("construct", 0, "void")
  /\ initialized = FALSE
  /\ devices = << >>
  /\ shared_keys = << >>
  /\ store_last = StoreCall("construct", 0, "void")
  /\ kind = "Transfer"
  /\ relock = "proceeds"
  /\ initial = "Pending"
  /\ state_ = "Pending"
  /\ state_changed_cb_ = FALSE
  /\ terminal_cb_ = FALSE
  /\ mutex_ = "free"
  /\ cb_log = << >>
  /\ sm_last = SmCall("construct", "Pending", "Pending", "void")
  /\ tracked = FALSE
  /\ readings = << >>
  /\ current_info = NoInfo
  /\ last_zone = "Unknown"
  /\ last_zone_change = 0
  /\ thresholds = DefaultThresholds
  /\ smoothing_window = 5
  /\ zone_hysteresis = 2000
  /\ zone_changed_cb = FALSE
  /\ security_alert_cb = FALSE
  /\ dist_last = DistCall("construct", "void")
  /\ feed_pc = [t \in FeedThreads |-> "idle"]
  /\ feed_arg = [t \in FeedThreads |-> 0]
  /\ dist_mutex = 0
  /\ delivered = NoneDelivered
  /\ sent = << >>
  /\ fed_len = 0
  /\ buffer_ = << >>
  /\ out = << >>
  /\ split_seen = {}
  /\ parse_last = ParseCall("construct", "void", FALSE, << >>, NoHeader, << >>)
  /\ header_bytes = << >>
  /\ decode_last = NotDecoded
  /\ tm_initialized = FALSE
  /\ active_transfers = [id \in TransferIds |-> "none"]
  /\ pending_requests = [id \in TransferIds |-> NoRequest]
  /\ completed_transfers = [id \in TransferIds |-> "none"]
  /\ complete_cb = FALSE
  /\ sys_now = 0
  /\ tm_last = TmCall("construct", 0, "void", "none", "unknown", FALSE)
  /\ api = "SeaDrop"
  /\ seadrop_state = "Uninitialized"
  /\ discovery_state = "Uninitialized"
  /\ connection_state = "Disconnected"
  /\ core_last = CoreCall("construct", "void", << >>)

\* a transfer manager right after construction
InitTransfers ==
  /\ trust_level = "Unknown"
  /\ peer_zone = "Unknown"
  /\ policy_last = PolicyCall("construct", 0, FALSE)
  /\ store = FALSE
  /\ current_pairing = NoPairing
  /\ ephemeral_keys = FALSE
  /\ now = 0
  /\ pair_last = PairCall("construct", 0, "void")
  /\ initialized = FALSE
  /\ devices = << >>
  /\ shared_keys = << >>
  /\ store_last = StoreCall("construct", 0, "void")
  /\ kind = "Transfer"
  /\ relock = "proceeds"
  /\ initial = "Pending"
  /\ state_ = "Pending"
  /\ state_changed_cb_ = FALSE
  /\ terminal_cb_ = FALSE
  /\ mutex_ = "free"
  /\ cb_log = << >>
  /\ sm_last = SmCall("construct", "Pending", "Pending", "void")
  /\ tracked = FALSE
  /\ readings = << >>
  /\ current_info = NoInfo
  /\ last_zone = "Unknown"
  /\ last_zone_change = 0
  /\ thresholds = DefaultThresholds
  /\ smoothing_window = 5
  /\ zone_hysteresis = 2000
  /\ zone_changed_cb = FALSE
  /\ security_alert_cb = FALSE
  /\ dist_last = DistCall("construct", "void")
  /\ feed_pc = [t \in FeedThreads |-> "idle"]
  /\ feed_arg = [t \in FeedThreads |-> 0]
  /\ dist_mutex = 0
  /\ delivered = NoneDelivered
  /\ sent = << >>
  /\ fed_len = 0
  /\ buffer_ = << >>
  /\ out = << >>
  /\ split_seen = {}
  /\ parse_last = ParseCall("construct", "void", FALSE, << >>, NoHeader, << >>)
  /\ header_bytes = << >>
  /\ decode_last = NotDecoded
  /\ tm_initialized = FALSE
  /\ active_transfers = [id \in TransferIds |-> "none"]
  /\ pending_requests = [id \in TransferIds |-> NoRequest]
  /\ completed_transfers = [id \in TransferIds |-> "none"]
  /\ complete_cb = FALSE
  /\ sys_now = 0
  /\ tm_last = TmCall("construct", 0, "void", "none", "unknown", FALSE)
  /\ api = "SeaDrop"
  /\ seadrop_state = "Uninitialized"
  /\ discovery_state = "Uninitialized"
  /\ connection_state = "Disconnected"
  /\ core_last = CoreCall("construct", "void", << >>)

\* the objects right after construction, in either kind of build
InitCore ==
  /\ relock \in RelockOutcomes
  /\ api \in Apis
  /\ trust_level = "Unknown"
  /\ peer_zone = "Unknown"
  /\ policy_last = PolicyCall("construct", 0, FALSE)
  /\ store = FALSE
  /\ current_pairing = NoPairing
  /\ ephemeral_keys = FALSE
  /\ now = 0
  /\ pair_last = PairCall("construct", 0, "void")
  /\ initialized = FALSE
  /\ devices = << >>
  /\ shared_keys = << >>
  /\ store_last = StoreCall("construct", 0, "void")
  /\ kind = "Transfer"
  /\ initial = "Pending"
  /\ state_ = "Pending"
  /\ state_changed_cb_ = FALSE
  /\ terminal_cb_ = FALSE
  /\ mutex_ = "free"
  /\ cb_log = << >>
  /\ sm_last = SmCall("construct", "Pending", "Pending", "void")
  /\ tracked = FALSE
  /\ readings = << >>
  /\ current_info = NoInfo
  /\ last_zone = "Unknown"
  /\ last_zone_change = 0
  /\ thresholds = DefaultThresholds
  /\ smoothing_window = 5
  /\ zone_hysteresis = 2000
  /\ zone_changed_cb = FALSE
  /\ security_alert_cb = FALSE
  /\ dist_last = DistCall("construct", "void")
  /\ feed_pc = [t \in FeedThreads |-> "idle"]
  /\ feed_arg = [t \in FeedThreads |-> 0]
  /\ dist_mutex = 0
  /\ delivered = NoneDelivered
  /\ sent = << >>
  /\ fed_len = 0
  /\ buffer_ = << >>
  /\ out = << >>
  /\ split_seen = {}
  /\ parse_last = ParseCall("construct", "void", FALSE, << >>, NoHeader, << >>)
  /\ header_bytes = << >>
  /\ decode_last = NotDecoded
  /\ tm_initialized = FALSE
  /\ active_transfers = [id \in TransferIds |-> "none"]
  /\ pending_requests = [id \in TransferIds |-> NoRequest]
  /\ completed_transfers = [id \in TransferIds |-> "none"]
  /\ complete_cb = FALSE
  /\ sys_now = 0
  /\ tm_last = TmCall("construct", 0, "void", "none", "unknown", FALSE)
  /\ seadrop_state = "Uninitialized"
  /\ discovery_state = "Uninitialized"
  /\ connection_state = "Disconnected"
  /\ core_last = CoreCall("construct", "void", << >>)

NextSM ==
  \/ \E to \in StatesOf(kind) : Transition(to) /\ UNCHANGED not_sm_vars
  \/ \E to \in TransferState : ForceTransition(to) /\ UNCHANGED not_sm_vars
  \/ Reset /\ UNCHANGED not_sm_vars
  \/ \E set \in BOOLEAN : OnStateChanged(set) /\ UNCHANGED not_sm_vars
  \/ \E set \in BOOLEAN : OnTerminal(set) /\ UNCHANGED not_sm_vars
  \/ ValidTransitionsCall /\ UNCHANGED not_sm_vars

NextStore ==
  \/ StoreInit /\ UNCHANGED not_store_vars
  \/ StoreClose /\ UNCHANGED not_store_vars
  \/ \E id \in DeviceIds, d \in DeviceRecords : SaveDevice(id, d) /\ UNCHANGED not_store_vars
  \/ \E id \in DeviceIds, k \in Keys : TrustDevice(id, k) /\ UNCHANGED not_store_vars
  \/ \E id \in DeviceIds : BlockDevice(id) /\ UNCHANGED not_store_vars
  \/ \E id \in DeviceIds : UntrustDevice(id) /\ UNCHANGED not_store_vars
  \/ \E id \in DeviceIds : UnblockDevice(id) /\ UNCHANGED not_store_vars
  \/ \E id \in DeviceIds : DeleteDevice(id) /\ UNCHANGED not_store_vars

\* calls on the pairing manager, interleaved with the store operations that
\* save a discovered peer, block and unblock a record, and with the passing
\* of time; no call is made once the process has crashed
NextPairing ==
  \/ ~Crashed /\ PairingInit /\ UNCHANGED not_pairing_vars
  \/ \E id \in DeviceIds, keygen_ok \in BOOLEAN :
       ~Crashed /\ InitiatePairing(id, keygen_ok) /\ UNCHANGED not_pairing_vars
  \/ \E id \in DeviceIds, k \in Keys :
       ~Crashed /\ AcceptPairing(id, k) /\ UNCHANGED not_pairing_vars
  \/ \E id \in DeviceIds : ~Crashed /\ RejectPairing(id) /\ UNCHANGED not_pairing_vars
  \/ ~Crashed /\ CancelPairing /\ UNCHANGED not_pairing_vars
  \/ ~Crashed /\ PairingClock /\ UNCHANGED not_pairing_vars
  \/ \E id \in DeviceIds, d \in DiscoveredRecords :
       ~Crashed /\ SaveDevice(id, d) /\ UNCHANGED <<pair_vars, not_pairing_vars>>
  \/ \E id \in DeviceIds :
       ~Crashed /\ BlockDevice(id) /\ UNCHANGED <<pair_vars, not_pairing_vars>>
  \/ \E id \in DeviceIds :
       ~Crashed /\ UnblockDevice(id) /\ UNCHANGED <<pair_vars, not_pairing_vars>>

NextPolicy ==
  \/ \E size \in RequestSizes : AutoAcceptCheck(size) /\ UNCHANGED not_policy_vars
  \/ AutoClipboardCheck /\ UNCHANGED not_policy_vars
  \/ \E zone \in TrustZone : ZoneMoves(zone) /\ UNCHANGED not_policy_vars
  \/ \E trust \in TrustLevel : TrustChanges(trust) /\ UNCHANGED not_policy_vars

NextDistance ==
  \/ \E rssi \in RssiValues : FeedRssi(rssi) /\ UNCHANGED not_distance_vars
  \/ RemoveDevice /\ UNCHANGED not_distance_vars
  \/ \E t \in ThresholdInputs : SetZoneThresholds(t) /\ UNCHANGED not_distance_vars
  \/ \E samples \in WindowInputs :
       SetSmoothingWindow(samples) /\ UNCHANGED not_distance_vars
  \/ \E duration \in HysteresisInputs :
       SetZoneChangeHysteresis(duration) /\ UNCHANGED not_distance_vars
  \/ OnZoneChanged /\ UNCHANGED not_distance_vars
  \/ OnSecurityAlert /\ UNCHANGED not_distance_vars
  \/ DistanceClock /\ UNCHANGED not_distance_vars

NextFeed ==
  \/ \E t \in FeedThreads, rssi \in RssiValues :
       FeedCall(t, rssi) /\ UNCHANGED not_monitor_vars
  \/ \E t \in FeedThreads : FeedLocked(t) /\ UNCHANGED not_monitor_vars
  \/ \E t \in FeedThreads : ZoneCbReturns(t) /\ UNCHANGED not_monitor_vars
  \/ \E t \in FeedThreads : AlertCbReturns(t) /\ UNCHANGED not_monitor_vars
  \/ \E t \in FeedThreads : FeedReturns(t) /\ UNCHANGED not_monitor_vars
  \/ FeedClock /\ UNCHANGED not_monitor_vars

NextParser ==
  \/ \E n \in 1..(MaxPackets * (PACKET_HEADER_SIZE + MaxPayload)) : Feed(n)
  \/ NextPacket

NextHeader ==
  \/ \E header \in HeaderInputs : SerializeHeader(header)
  \/ TruncateHeader
  \/ DeserializeHeader

NextTransfers ==
  \/ TransferInit
  \/ TransferShutdown
  \/ OnComplete
  \/ \E id \in TransferIds : SendData(id)
  \/ \E id \in TransferIds : ReceiveRequest(id)
  \/ ExpireRequests
  \/ \E id \in TransferIds : AcceptTransfer(id)
  \/ \E id \in TransferIds : RejectTransfer(id)
  \/ \E id \in TransferIds : PauseTransfer(id)
  \/ \E id \in TransferIds : ResumeTransfer(id)
  \/ \E id \in TransferIds : CancelTransfer(id)
  \/ TransferClock

NextCore ==
  \/ DiscoveryInit
  \/ DiscoveryStart
  \/ DiscoveryStop
  \/ StartAdvertising
  \/ StopAdvertising
  \/ StartScanning
  \/ StopScanning
  \/ DiscoveryShutdown
  \/ ConnectionInit
  \/ Connect
  \/ Disconnect
  \/ CancelConnection
  \/ ConnectionShutdown
  \/ \E valid \in BOOLEAN : SeaDropInit(valid)
  \/ StartDiscovery
  \/ StopDiscovery
  \/ SeaDropConnect
  \/ SeaDropShutdown

SpecSM == InitSM /\ [][NextSM]_vars

SpecStore == InitStore /\ [][NextStore]_vars

SpecPairing == InitPairing /\ [][NextPairing]_vars

SpecPolicy == InitPolicy /\ [][NextPolicy]_vars

SpecDistance == InitDistance /\ [][NextDistance]_vars

SpecFeed == InitFeed /\ [][NextFeed]_vars

SpecParser == InitParser /\ [][NextParser]_vars

SpecHeader == InitHeader /\ [][NextHeader]_vars

SpecTransfers == InitTransfers /\ [][NextTransfers]_vars

SpecCore == InitCore /\ [][NextCore]_vars

TypeOKSM ==
  /\ kind \in MachineKinds
  /\ state_ \in StatesOf(kind)
  /\ mutex_ \in {"free", "held"}
  /\ Len(cb_log) <= MaxLog + 1

TypeOKStore ==
  /\ DOMAIN devices \subseteq DeviceIds
  /\ DOMAIN shared_keys \subseteq DeviceIds
  /\ \A id \in DOMAIN devices : devices[id] \in DeviceRecords
  /\ \A id \in DOMAIN shared_keys : shared_keys[id] \in Keys

\* ------------------------------------------------------------------------
\* Properties of the state machines (checked under SpecSM)
\* ------------------------------------------------------------------------

\* C1: on each of the three machines, transition(t) called in state s
\* returns Ok if and only if t is in the allowed-next set of s.
C1_OkIffAllowed ==
  sm_last.op = "transition" =>
    (sm_last.res = "Ok" <=> sm_last.to \in Allowed(kind, sm_last.from))

\* C2 as stated: a transition(to) whose target is not in the table for the
\* current state fails with error kind InvalidTransition.
C2_RejectedWithInvalidTransition ==
  (sm_last.op = "transition" /\ sm_last.to \notin Allowed(kind, sm_last.from))
    => sm_last.res = "InvalidTransition"

\* C2 amended: a transition(to) whose target is not in the table for the
\* current state, when it returns, returns error kind InvalidState.
C2_RejectedWithInvalidState ==
  (/\ sm_last.op = "transition"
   /\ sm_last.to \notin Allowed(kind, sm_last.from)
   /\ sm_last.res # "blocked")
    => sm_last.res = "InvalidState"

\* Pending -> Completed on a Transfer machine was rejected
C2_Witness ==
  /\ kind = "Transfer"
  /\ sm_last = SmCall("transition", "Completed", "Pending", "InvalidState")

\* C3: a rejected transition(to) leaves the current state unchanged and
\* invokes neither the state_changed nor the terminal callback.
C3_RejectChangesNothing ==
  [][(sm_last'.op = "transition" /\ sm_last'.res = "InvalidState")
       => (state_' = state_ /\ cb_log' = cb_log)]_vars

\* a transition was rejected while both callbacks were registered and had
\* already observed an earlier transition
C3_Witness ==
  /\ sm_last.op = "transition"
  /\ sm_last.res = "InvalidState"
  /\ state_changed_cb_
  /\ terminal_cb_
  /\ Len(cb_log) > 0
  /\ sm_last.from = state_

\* C4: in Completed, Cancelled, Rejected and Failed, valid_transitions()
\* returns the empty set and no transition(t) succeeds or changes the
\* state, so transition() calls never leave a terminal state.
C4_TerminalAbsorbing ==
  /\ []((/\ kind = "Transfer"
         /\ sm_last.op = "valid_transitions"
         /\ sm_last.res = "Ok"
         /\ IsTerminalState(sm_last.from)) => sm_last.out = {})
  /\ [][(/\ kind = "Transfer"
         /\ IsTerminalState(state_)
         /\ sm_last'.op = "transition")
          => (state_' = state_ /\ sm_last'.res # "Ok")]_vars

\* a transition was attempted, and rejected, in a terminal state that the
\* machine had entered
C4_Witness ==
  /\ kind = "Transfer"
  /\ relock = "proceeds"
  /\ initial = "Pending"
  /\ IsTerminalState(state_)
  /\ sm_last.op = "transition"
  /\ sm_last.from = state_
  /\ sm_last.res = "InvalidState"

\* C5: a successful transition invokes the registered state_changed
\* callback exactly once, with (state before, state after), and the call is
\* recorded after those of all earlier transitions.
C5_OneCallbackInOrder ==
  [][(sm_last'.op = "transition" /\ sm_last'.res = "Ok" /\ state_changed_cb_)
       => (/\ Len(cb_log') > Len(cb_log)
           /\ SubSeq(cb_log', 1, Len(cb_log)) = cb_log
           /\ cb_log'[Len(cb_log) + 1] = CbEntry("state_changed", state_, state_')
           /\ sm_last'.from = state_
           /\ sm_last'.to = state_'
           /\ \A i \in (Len(cb_log) + 2)..Len(cb_log') :
                cb_log'[i].cb # "state_changed")]_vars

\* two successive successful transitions were observed, in order
C5_Witness ==
  /\ sm_last.op = "transition"
  /\ sm_last.res = "Ok"
  /\ Len(cb_log) = 2
  /\ cb_log[1].cb = "state_changed"
  /\ cb_log[2] = CbEntry("state_changed", cb_log[1].to, state_)
  /\ cb_log[1].from # cb_log[1].to

\* C6: reset() sets the state to the state the machine had when constructed
\* and emits exactly one state_changed callback if the state before reset
\* differed from that state, none otherwise.
C6_ResetToConstructed ==
  [][(sm_last'.op = "reset" /\ sm_last'.res = "void" /\ state_changed_cb_)
       => (/\ state_' = initial
           /\ Len(cb_log') = Len(cb_log) + (IF state_ # initial THEN 1 ELSE 0))]_vars

\* ------------------------------------------------------------------------
\* Properties of the trust store (checked under SpecStore)
\* ------------------------------------------------------------------------

\* C7: after trust_device(id, k) succeeds, get_shared_key(id) returns
\* exactly k and is_trusted(id) is true.
C7_TrustStoresKey ==
  (store_last.op = "trust_device" /\ store_last.res = "Ok")
    => (/\ get_shared_key(store_last.id).ok
        /\ get_shared_key(store_last.id).key = store_last.key
        /\ is_trusted(store_last.id))

\* a Blocked record holding no key was trusted with key 2
C7_Witness ==
  /\ store_last.op = "trust_device"
  /\ store_last.res = "Ok"
  /\ store_last.key = 2
  /\ store_last.was = "Blocked"
  /\ store_last.had = 0

\* C8 as stated: after block_device(id) succeeds, is_blocked(id) is true, no
\* key is stored for id, and get_shared_key(id) fails with RecordNotFound.
C8_BlockThenRecordNotFound ==
  (store_last.op = "block_device" /\ store_last.res = "Ok")
    => (/\ is_blocked(store_last.id)
        /\ store_last.id \notin DOMAIN shared_keys
        /\ ~get_shared_key(store_last.id).ok
        /\ get_shared_key(store_last.id).code = "RecordNotFound")

\* C8 amended: after block_device(id) succeeds, is_blocked(id) is true, no
\* key is stored for id, and get_shared_key(id) fails with DeviceNotTrusted.
C8_BlockThenDeviceNotTrusted ==
  (store_last.op = "block_device" /\ store_last.res = "Ok")
    => (/\ is_blocked(store_last.id)
        /\ store_last.id \notin DOMAIN shared_keys
        /\ ~get_shared_key(store_last.id).ok
        /\ get_shared_key(store_last.id).code = "DeviceNotTrusted")

\* a Trusted record that held a key was blocked
C8_Witness ==
  /\ store_last.op = "block_device"
  /\ store_last.res = "Ok"
  /\ store_last.was = "Trusted"
  /\ store_last.had # 0

\* C9: after untrust_device(id) or unblock_device(id) succeeds, the record's
\* trust level is Discovered and no shared key is stored for id.
C9_UntrustUnblockClearKey ==
  (store_last.op \in {"untrust_device", "unblock_device"} /\ store_last.res = "Ok")
    => (/\ StoredTrust(store_last.id) = "Discovered"
        /\ store_last.id \notin DOMAIN shared_keys)

\* C10: save_device on an id already in the store leaves the stored trust
\* level and the stored shared key as they were.
C10_SaveKeepsTrust ==
  (store_last.op = "save_device" /\ store_last.was # "none")
    => (/\ StoredTrust(store_last.id) = store_last.was
        /\ StoredKey(store_last.id) = store_last.had)

\* C11: after any sequence of trust-store operations, a shared key is stored
\* for an id only if a record for that id exists with trust level Trusted.
C11_KeyOnlyIfTrusted ==
  \A id \in DOMAIN shared_keys : is_trusted(id)

\* ------------------------------------------------------------------------
\* Properties of the pairing manager (checked under SpecPairing)
\* ------------------------------------------------------------------------

\* C12: while a device's stored trust level is Blocked, no initiate_pairing
\* or accept_pairing with it succeeds, and no shared key is stored for it.
C12_BlockedNeverPaired ==
  /\ [](\A id \in DeviceIds : is_blocked(id) => id \notin DOMAIN shared_keys)
  /\ [][(/\ pair_last' # pair_last
          /\ pair_last'.op \in {"initiate_pairing", "accept_pairing"}
          /\ pair_last'.res = "Ok")
         => ~is_blocked(pair_last'.id)]_vars

\* C13: a reject_pairing, a cancel_pairing, or an accept_pairing made after
\* the expires_at of the pairing in progress stores no shared key and
\* promotes no record to Trusted.
C13_NoTrustWithoutTimelyAccept ==
  [][(/\ pair_last' # pair_last
      /\ \/ pair_last'.op \in {"reject_pairing", "cancel_pairing"}
         \/ pair_last'.op = "accept_pairing" /\ is_expired)
     => (shared_keys' = shared_keys /\ devices' = devices)]_vars

\* ------------------------------------------------------------------------
\* Properties of the zone and trust policy (checked under SpecPolicy)
\* ------------------------------------------------------------------------

\* C14: a peer whose trust level is not Trusted is never auto-accepted in any
\* zone, and no peer of any trust level is auto-accepted while its zone is
\* Far or Unknown.
C14_NoAutoAcceptUntrustedOrFar ==
  policy_last.op = "can_auto_accept_files" =>
    /\ policy_last.trust # "Trusted" => ~policy_last.res
    /\ policy_last.zone \in {"Far", "Unknown"} => ~policy_last.res

\* a Blocked peer in the Intimate zone was refused
C14_Witness ==
  /\ policy_last.op = "can_auto_accept_files"
  /\ policy_last.trust = "Blocked"
  /\ policy_last.zone = "Intimate"
  /\ ~policy_last.res

\* C15: for a Trusted peer whose zone is Nearby, a transfer request is
\* auto-accepted if and only if its total size is at most the small-file
\* threshold.
C15_NearbySmallAutoAccepted ==
  (/\ policy_last.op = "can_auto_accept_files"
   /\ policy_last.trust = "Trusted"
   /\ policy_last.zone = "Nearby")
    => (policy_last.res <=> policy_last.size <= SmallFileThreshold)

\* C16: the auto-push condition is true only for a Trusted peer whose
\* current zone is Intimate: whenever it was asked it answered so, and in
\* every state where the zone is not Intimate it is false.
C16_AutoClipboardOnlyIntimate ==
  /\ policy_last.op = "can_auto_clipboard" =>
       (policy_last.res <=>
          (policy_last.trust = "Trusted" /\ policy_last.zone = "Intimate"))
  /\ peer_zone # "Intimate" => ~can_auto_clipboard(trust_level, peer_zone)
  /\ trust_level # "Trusted" => ~can_auto_clipboard(trust_level, peer_zone)

\* a Trusted peer was allowed auto-clipboard in the Intimate zone and has
\* since moved to the Close zone
C16_Witness ==
  /\ policy_last.op = "can_auto_clipboard"
  /\ policy_last.res
  /\ trust_level = "Trusted"
  /\ peer_zone = "Close"

\* ------------------------------------------------------------------------
\* Properties of the distance monitor (checked under SpecDistance)
\* ------------------------------------------------------------------------

C18_EventIffChangedAndWaited ==
  dist_last.op = "feed_rssi" =>
    /\ dist_last.emitted <=> (dist_last.zone # dist_last.was /\ dist_last.waited)
    /\ dist_last.emitted =>
         (dist_last.previous = dist_last.was /\ dist_last.current = dist_last.zone)

\* C19: every emitted ZoneChangeEvent has requires_security_alert = true if
\* and only if its current zone is Far and its previous zone is neither
\* Unknown nor Far, and the registered security-alert callback is invoked
\* for exactly those events.
C19_AlertIffMovedToFar ==
  /\ (dist_last.op = "feed_rssi" /\ dist_last.emitted) =>
       /\ dist_last.alert <=> (/\ dist_last.current = "Far"
                               /\ dist_last.previous \notin {"Unknown", "Far"})
       /\ security_alert_cb => (dist_last.alert_called <=> dist_last.alert)
  /\ dist_last.alert_called => (dist_last.emitted /\ dist_last.alert)

\* an event from Close to Far required the alert and the callback ran
C19_Witness ==
  /\ dist_last.op = "feed_rssi"
  /\ dist_last.emitted
  /\ dist_last.previous = "Close"
  /\ dist_last.current = "Far"
  /\ dist_last.alert
  /\ dist_last.alert_called

\* C20: with hysteresis 0 and default settings, feeding a fresh device RSSI
\* -50 and then -90 yields zone Intimate after the first reading and zone
\* Far after the second, and the second reading fires zone_changed with
\* previous = Intimate, current = Far and requires_security_alert = true.
C20_IntimateThenFar ==
  (/\ dist_last.op = "feed_rssi"
   /\ zone_hysteresis = 0
   /\ thresholds = DefaultThresholds
   /\ smoothing_window = 5
   /\ zone_changed_cb)
    => /\ (dist_last.rssi = -50 /\ readings = <<-50>>) => get_zone = "Intimate"
       /\ (dist_last.rssi = -90 /\ readings = <<-50, -90>>
             /\ dist_last.was = "Intimate")
            => (/\ get_zone = "Far"
                /\ dist_last.zc_called
                /\ dist_last.previous = "Intimate"
                /\ dist_last.current = "Far"
                /\ dist_last.alert)

\* C21: under feed_rssi calls issued concurrently from several threads, no
\* two callbacks of the monitor run at the same time, and each event
\* delivered to zone_changed_cb has as previous zone the current zone of the
\* event delivered immediately before it.
C21_CallbacksTotallyOrdered ==
  /\ Cardinality({t \in FeedThreads :
                    feed_pc[t] \in {"in_zone_cb", "in_alert_cb"}}) <= 1
  /\ delivered.before # "none" => delivered.previous = delivered.before

\* thread 1 is inside zone_changed_cb with the second event of the peer
\* while thread 2 waits for the mutex
C21_Witness ==
  /\ feed_pc[1] = "in_zone_cb"
  /\ feed_pc[2] = "waiting"
  /\ delivered.before # "none"

\* C22: feeding the same reading (same device, same RSSI and timestamp) once
\* more leaves the device's buffer, smoothed RSSI and zone as they were.
C22_SameReadingIdempotent ==
  [][(/\ dist_last.op = "feed_rssi"
      /\ current_info.last_update = now
      /\ dist_last'.op = "feed_rssi"
      /\ dist_last'.rssi = dist_last.rssi
      /\ now' = now)
     => (/\ readings' = readings
         /\ current_info'.rssi_smoothed = current_info.rssi_smoothed
         /\ current_info'.zone = current_info.zone)]_vars

\* C23: for a stream of valid packets, however its bytes are cut into feed()
\* calls, the (header, payload) pairs next_packet() has returned are the
\* first pairs of what the parser returns when it is fed the whole stream in
\* one call, and all of them once the stream is fed and the parser drained.
C23_ChunkedEqualsUnchunked ==
  (\A i \in 1..Len(sent) : sent[i] \in ValidPackets) =>
    /\ Len(out) <= Len(ParseAll(stream))
    /\ out = SubSeq(ParseAll(stream), 1, Len(out))
    /\ (fed_len = Len(stream) /\ ~has_packet) => out = ParseAll(stream)

\* two valid packets were fed in chunks that ended inside a header, inside a
\* payload, and past a whole packet, and both packets have been returned
C23_Witness ==
  /\ \A i \in 1..Len(sent) : sent[i] \in ValidPackets
  /\ split_seen = {"mid-header", "mid-payload", "several"}
  /\ fed_len = Len(stream)
  /\ Len(out) = 2
  /\ out = ParseAll(stream)

\* C24: has_packet() is true exactly when the buffer holds at least 12 bytes
\* and at least 12 + payload_size bytes, payload_size being the little-endian
\* 32-bit number in bytes 8..11 of the buffer.
C24_HasPacketIffWholePacket ==
  has_packet <=>
    /\ Len(buffer_) >= 12
    /\ Len(buffer_) >= 12 + buffer_[9] + 256 * buffer_[10]
                          + 65536 * buffer_[11] + 16777216 * buffer_[12]

\* the buffer holds a header announcing two payload bytes, and both bytes
C24_Witness ==
  /\ has_packet
  /\ buffer_[9] = 2
  /\ Len(buffer_) = 14

\* C25 as stated: whenever has_packet() is true, next_packet() removes the
\* first 12 + payload_size bytes of the buffer, returns them as header and
\* payload, and leaves the rest of the buffer.
C25_NextPacketAlwaysConsumes ==
  (parse_last.op = "next_packet" /\ parse_last.had) =>
    LET before == parse_last.before
        size == 12 + before[9] + 256 * before[10] + 65536 * before[11]
                  + 16777216 * before[12]
    IN /\ parse_last.res = "Ok"
       /\ serialize_header(parse_last.header) \o parse_last.payload
            = SubSeq(before, 1, size)
       /\ buffer_ = SubSeq(before, size + 1, Len(before))

\* C25: whenever has_packet() is true and the buffered header starts with
\* the magic number and version 1 and announces at most 16 MiB,
\* next_packet() removes the first 12 + payload_size bytes of the buffer,
\* returns them as header and payload, and leaves the rest of the buffer;
\* with any other header it fails and leaves the whole buffer.
C25_NextPacketConsumesDecodablePrefix ==
  (parse_last.op = "next_packet" /\ parse_last.had) =>
    LET before == parse_last.before
        payload_size == before[9] + 256 * before[10] + 65536 * before[11]
                          + 16777216 * before[12]
        size == 12 + payload_size
    IN IF SubSeq(before, 1, 5) = <<83, 69, 65, 68, 1>>
          /\ payload_size <= 16 * 1024 * 1024
       THEN /\ parse_last.res = "Ok"
            /\ serialize_header(parse_last.header) \o parse_last.payload
                 = SubSeq(before, 1, size)
            /\ buffer_ = SubSeq(before, size + 1, Len(before))
       ELSE /\ parse_last.res \in {"InvalidArgument", "NotSupported"}
            /\ buffer_ = before

\* next_packet() has returned a packet with a payload and bytes of the next
\* packet stay in the buffer
C25_Witness ==
  /\ parse_last.op = "next_packet"
  /\ parse_last.res = "Ok"
  /\ parse_last.payload # << >>
  /\ buffer_ # << >>

\* C26 as stated: decoding 12 header bytes fails with ProtocolBadMagic on a
\* wrong magic number, with ProtocolVersionMismatch on a version other than
\* 1, with ProtocolOverflow on a payload_size above 16 MiB, and succeeds on a
\* header with payload_size up to and including 16 MiB.
C26_NamedProtocolErrors ==
  (decode_last.code # "none" /\ Len(decode_last.input) = 12) =>
    LET input == decode_last.input
        payload_size == input[9] + 256 * input[10] + 65536 * input[11]
                          + 16777216 * input[12]
    IN IF SubSeq(input, 1, 4) # <<83, 69, 65, 68>>
       THEN decode_last.code = "ProtocolBadMagic"
       ELSE IF input[5] # 1
       THEN decode_last.code = "ProtocolVersionMismatch"
       ELSE IF payload_size > 16 * 1024 * 1024
       THEN decode_last.code = "ProtocolOverflow"
       ELSE decode_last.code = "Ok"

\* C26: decoding 12 header bytes fails with InvalidArgument on a wrong magic
\* number, with NotSupported on a version other than 1, with InvalidArgument
\* on a payload_size above 16 MiB, and succeeds on a header with payload_size
\* up to and including 16 MiB.
C26_DecodeErrorKinds ==
  (decode_last.code # "none" /\ Len(decode_last.input) = 12) =>
    LET input == decode_last.input
        payload_size == input[9] + 256 * input[10] + 65536 * input[11]
                          + 16777216 * input[12]
    IN IF SubSeq(input, 1, 4) # <<83, 69, 65, 68>>
       THEN decode_last.code = "InvalidArgument"
       ELSE IF input[5] # 1
       THEN decode_last.code = "NotSupported"
       ELSE IF payload_size > 16 * 1024 * 1024
       THEN decode_last.code = "InvalidArgument"
       ELSE /\ decode_last.code = "Ok"
            /\ decode_last.header.payload_size = payload_size

\* a header announcing exactly 16 MiB has been decoded
C26_Witness ==
  /\ decode_last.code = "Ok"
  /\ decode_last.header.payload_size = 16 * 1024 * 1024

\* C27: cancel_transfer(id) on a transfer that is already cancelled changes
\* neither the active transfers nor the recorded results nor the pending
\* requests, the recorded result stays Cancelled, and complete_cb is not
\* called again.
C27_SecondCancelNoOp ==
  [][(/\ tm_last'.op = "cancel_transfer"
      /\ sys_now' = sys_now
      /\ completed_transfers[tm_last'.id] = "Cancelled"
      /\ active_transfers[tm_last'.id] = "none")
     => (/\ active_transfers' = active_transfers
         /\ completed_transfers' = completed_transfers
         /\ pending_requests' = pending_requests
         /\ completed_transfers'[tm_last'.id] = "Cancelled"
         /\ tm_last'.cb = FALSE)]_vars

\* a cancelled transfer has been cancelled once more, with a callback
\* registered
C27_Witness ==
  /\ tm_last.op = "cancel_transfer"
  /\ tm_last.was = "none"
  /\ completed_transfers[tm_last.id] = "Cancelled"
  /\ complete_cb

\* C28: pause_transfer succeeds exactly on an InProgress transfer and makes
\* it Paused, resume_transfer succeeds exactly on a Paused transfer and makes
\* it InProgress; otherwise the call fails and the transfer's state is what
\* it was.
C28_PauseResumeGuarded ==
  /\ tm_last.op = "pause_transfer" =>
       IF tm_last.was = "InProgress"
       THEN tm_last.res = "Ok" /\ active_transfers[tm_last.id] = "Paused"
       ELSE tm_last.res # "Ok" /\ active_transfers[tm_last.id] = tm_last.was
  /\ tm_last.op = "resume_transfer" =>
       IF tm_last.was = "Paused"
       THEN tm_last.res = "Ok" /\ active_transfers[tm_last.id] = "InProgress"
       ELSE tm_last.res # "Ok" /\ active_transfers[tm_last.id] = tm_last.was

\* a transfer that was paused has been resumed
C28_Witness ==
  /\ tm_last.op = "resume_transfer"
  /\ tm_last.res = "Ok"
  /\ tm_last.was = "Paused"

\* C29: accept_transfer and reject_transfer on a request that is unknown or
\* past its expires_at return RecordNotFound and leave the transfer under
\* that id as it was, so that no request becomes an active transfer after
\* its expires_at.
C29_StaleRequestNotFound ==
  (/\ tm_last.op \in {"accept_transfer", "reject_transfer"}
   /\ tm_last.req \in {"unknown", "expired"})
    => /\ tm_last.res = "RecordNotFound"
       /\ active_transfers[tm_last.id] = tm_last.was

\* C30: the transfer manager never holds more results than a fixed capacity.
C30_HistoryBounded ==
  Cardinality({id \in TransferIds : completed_transfers[id] # "none"})
    <= HistoryCapacity

\* ------------------------------------------------------------------------
\* Properties across components
\* ------------------------------------------------------------------------

\* C32: no thread is inside zone_changed_cb or security_alert_cb while it
\* holds the monitor's mutex, so that the callback can call the monitor.
C32_CallbacksOutsideLock ==
  \A t \in FeedThreads :
    feed_pc[t] \in {"in_zone_cb", "in_alert_cb"} => dist_mutex # t

\* C33: on a Transfer machine whose callbacks do not call the machine, every
\* transition(to) and force_transition(to) returns to its caller.
C33_TransitionReturns ==
  (kind = "Transfer" /\ sm_last.op \in {"transition", "force_transition"})
    => sm_last.res # "blocked"

\* C34: the state of a transfer record changes only along edges of the
\* Transfer table: a record starts Pending, a sent transfer is moved on to
\* AwaitingAccept by the send, an accepted request is not InProgress before
\* it was Preparing, and a record leaves the active transfers only over an
\* edge into the state of its result, or Cancelled at shutdown.
C34_RecordsFollowTable ==
  [][/\ (tm_last'.op = "send_data" /\ tm_last'.res = "Ok")
          => active_transfers'[tm_last'.id] = "AwaitingAccept"
     /\ \A id \in TransferIds :
          LET a == active_transfers[id]
              b == active_transfers'[id]
          IN a # b =>
               \/ a = "none" /\ b \in {"Pending", "AwaitingAccept"}
               \/ a # "none" /\ b # "none" /\ b \in Allowed("Transfer", a)
               \/ /\ a # "none"
                  /\ b = "none"
                  /\ "Cancelled" \in Allowed("Transfer", a)]_vars

\* C35: on a Transfer machine with a terminal callback, a transition or
\* forced transition into Completed, Cancelled, Rejected or Failed calls
\* the state_changed callback and then the terminal callback once, with the
\* new state, and one into any other state does not call the terminal
\* callback.
C35_TerminalCallbackOnce ==
  [][(/\ kind = "Transfer"
      /\ terminal_cb_
      /\ sm_last' # sm_last
      /\ sm_last'.op \in {"transition", "force_transition"}
      /\ sm_last'.res # RejectCode
      /\ sm_last'.from = state_
      /\ mutex_ = "free")
     => cb_log' = cb_log \o StateChangedCalls(state_, state_')
                    \o (IF IsTerminalState(state_')
                        THEN <<CbEntry("terminal", state_', state_')>>
                        ELSE << >>)]_vars

\* C36: when accept_pairing has returned, with Ok or with an error, no
\* pairing is in progress.
C36_AcceptEndsPairing ==
  (pair_last.op = "accept_pairing" /\ pair_last.res # "crash") => ~HasPairing

\* C37: accept_pairing with a request for another device than the one of the
\* pairing in progress changes no record and no shared key.
C37_AcceptOnlyCurrentDevice ==
  [][(/\ pair_last' # pair_last
      /\ pair_last'.op = "accept_pairing"
      /\ HasPairing
      /\ pair_last'.id # current_pairing.id)
     => (devices' = devices /\ shared_keys' = shared_keys)]_vars

\* C31: shutdown() of a SeaDrop object returns, and leaves the object
\* Uninitialized, after any calls of init, start_discovery, stop_discovery
\* and connect.
C31_ShutdownReturnsUninitialized ==
  (api = "SeaDrop" /\ core_last.op = "shutdown")
    => (core_last.res # "blocked" /\ seadrop_state = "Uninitialized")

\* C38: every state change a ConnectionManager makes is an edge of the
\* Connection table.
C38_ConnectionChangesInTable ==
  api = "ConnectionManager" =>
    \A i \in 1..Len(core_last.changes) :
      core_last.changes[i].to \in ConnectionTable[core_last.changes[i].from]

\* C39: every state change a DiscoveryManager makes is an edge of the
\* Discovery table.
C39_DiscoveryChangesInTable ==
  api = "DiscoveryManager" =>
    \A i \in 1..Len(core_last.changes) :
      core_last.changes[i].to \in DiscoveryTable[core_last.changes[i].from]

\* C40: shutdown() of a ConnectionManager returns in every state and leaves
\* the connection Disconnected.
C40_ConnectionShutdownReturns ==
  (api = "ConnectionManager" /\ core_last.op = "shutdown")
    => (core_last.res # "blocked" /\ connection_state = "Disconnected")

====
